---------------------------- MODULE Spec2Model ----------------------------
(***************************************************************************)
(* A model of the CAD-MCP natural-language command interpreter             *)
(* (src/src/nlp_processor.py, class NLPProcessor) and of the controller    *)
(* that drives the CAD application (src/src/cad_controller.py, class       *)
(* CADController).                                                         *)
(*                                                                         *)
(* Text is modelled at the character level: a Python str is a sequence of  *)
(* characters and every character is a one-element TLA+ string.  TLA+      *)
(* string literals are ASCII only, so a CJK character is written as its    *)
(* pinyin code; the legend below gives the character behind every code.    *)
(* Latin letters, digits and punctuation stand for themselves.             *)
(*                                                                         *)
(*   hua 画   hui 绘   zhi4 制  chuang 创 jian 建  tian 添  jia 加  xin 新   *)
(*   xiu 修   gai 改   tiao 调  zheng3 整 bian 变  yi 移    dong 动 xuan 旋  *)
(*   zhuan 转 suo 缩   fang4 放 da 大     xiao 小  shan 删  chu 除  ca 擦    *)
(*   bao 保   cun 存   biao 标  zhu 注    tian2 填 chong 充 tu 图   ceng 层  *)
(*   qie 切   huan 换  zhi 直   xian 线   yuan 圆  xing 形  hu 弧   ju 矩    *)
(*   fang 方  zheng 正 duo 多   duan 段   zhe 折   wen 文   ben 本  zi 字    *)
(*   chi 尺   cun4 寸  qiang 墙 ti 体     men 门   chuang1 窗 lou 楼 ti1 梯  *)
(*   zhu4 柱  zi5 子   cha 插   zuo 座    kai 开   guan 关  deng 灯 ju4 具   *)
(*   pei 配   dian 电  xiang 箱 zhou 轴   chi3 齿  lun 轮   cheng 承 fa 法   *)
(*   lan 兰   lu 路    jing 径  dao 到    kuan 宽  du 度    hou 厚  an 案    *)
(*   bi 比    li 例    bi4 闭   he 合     feng 封  hong 红  se 色   huang 黄 *)
(*   lv 绿    qing 青  lan2 蓝  yang 洋   bai 白   hui1 灰  qian 浅 hei 黑   *)
(*   zong 棕  cheng2 橙 zi3 紫  xu 需     yao 要   ti2 提   gong 供 qi 起    *)
(*   dian3 点 he2 和   zhong 终 zuo4 坐   zhi3 至  shao 少  ge 个   lai 来   *)
(*   ding 定  yi4 义   bian1 边 jie4 界   liang 两 shi3 使  yong 用 mo 默    *)
(*   ren 认   yin 因   wei 为   ming4 命  ling 令  zhong1 中 wei4 未 zu 足   *)
(*   gou 够   de 的    xin4 信  xi 息     wu 无    shi2 识  bie 别  lei 类   *)
(*   xing2 型 shi4 示  ban 半   gao 高    jiao 角  shi 始   jie 结  shu 束   *)
(*   nei 内   rong 容  ming 名  cheng1 称 jiao4 叫  fen 粉   shen 深 dan 淡   *)
(*   xin1 心                                                                *)
(*   douhao is the full-width comma，and maohao the full-width colon：       *)
(***************************************************************************)
EXTENDS Integers, Sequences, FiniteSets, TLC

VARIABLES
    self,      \* the NLPProcessor instance: a record of its attributes
    input,     \* the input the caller is preparing for the next calls
    call,      \* the method invoked by the last call ("init" after construction)
    command,   \* the argument passed to that call (a character sequence)
    outcome,   \* "none", "returned" or "raised"
    result,    \* the value returned, when outcome = "returned"
    exc,       \* the exception type raised, when outcome = "raised"
    served,    \* TRUE once the instance has served a call before the last one
    controller, \* the CADController instance: a record of its attributes
    document   \* the drawing of the CAD application that self.doc refers to

vars ==
    <<self, input, call, command, outcome, result, exc, served,
      controller, document>>

----------------------------------------------------------------------------
(* Characters and strings                                                  *)

Digits == {"0", "1", "2", "3", "4", "5", "6", "7", "8", "9"}

Upper == {"A", "B", "C", "D", "E", "F", "G", "H", "I", "J", "K", "L", "M",
          "N", "O", "P", "Q", "R", "S", "T", "U", "V", "W", "X", "Y", "Z"}

\* Characters that Python's \w does not match (re, str patterns: Unicode
\* letters, digits and "_" are word characters, so every CJK code is one).
NonWord == {" ", ",", "(", ")", "-", ".", ":", "\"", "'", "/", "|",
            "douhao", "maohao"}

IsDigit(c) == c \in Digits
IsSpace(c) == c = " "
IsWord(c) == c \notin NonWord
IsQuote(c) == c \in {"\"", "'"}

\* str.lower() on one character.
LowerChar(c) ==
    CASE c = "A" -> "a" [] c = "B" -> "b" [] c = "C" -> "c" [] c = "D" -> "d"
      [] c = "E" -> "e" [] c = "F" -> "f" [] c = "G" -> "g" [] c = "H" -> "h"
      [] c = "I" -> "i" [] c = "J" -> "j" [] c = "K" -> "k" [] c = "L" -> "l"
      [] c = "M" -> "m" [] c = "N" -> "n" [] c = "O" -> "o" [] c = "P" -> "p"
      [] c = "Q" -> "q" [] c = "R" -> "r" [] c = "S" -> "s" [] c = "T" -> "t"
      [] c = "U" -> "u" [] c = "V" -> "v" [] c = "W" -> "w" [] c = "X" -> "x"
      [] c = "Y" -> "y" [] c = "Z" -> "z" [] OTHER -> c

\* str.upper() on one character.
UpperChar(c) ==
    IF \E u \in Upper : LowerChar(u) = c
    THEN CHOOSE u \in Upper : LowerChar(u) = c
    ELSE c

Lower(s) == [i \in 1..Len(s) |-> LowerChar(s[i])]
ToUpper(s) == [i \in 1..Len(s) |-> UpperChar(s[i])]

RECURSIVE LStrip(_)
LStrip(s) == IF s # <<>> /\ IsSpace(Head(s)) THEN LStrip(Tail(s)) ELSE s

RECURSIVE RStrip(_)
RStrip(s) ==
    IF s # <<>> /\ IsSpace(s[Len(s)]) THEN RStrip(SubSeq(s, 1, Len(s) - 1)) ELSE s

\* str.strip()
Strip(s) == RStrip(LStrip(s))

\* s[i:] starts with p  (p matched at position i of s)
MatchAt(s, i, p) ==
    /\ i >= 1
    /\ i + Len(p) - 1 <= Len(s)
    /\ \A k \in 1..Len(p) : s[i + k - 1] = p[k]

\* Python's `p in s` on strings
Contains(s, p) == \E i \in 1..(Len(s) + 1) : MatchAt(s, i, p)

RECURSIVE Concat(_)
Concat(ss) == IF ss = <<>> THEN <<>> ELSE Head(ss) \o Concat(Tail(ss))


----------------------------------------------------------------------------
(* The tables built by NLPProcessor.__init__.  A Python dict iterates in   *)
(* insertion order, so a table is a sequence of key/value entries.         *)

E(k, v) == [k |-> k, v |-> v]

\* self.color_rgb_map
InitColorRgbMap == <<
    E(<<"hong", "se">>, 1),          E(<<"huang", "se">>, 2),
    E(<<"lv", "se">>, 3),            E(<<"qing", "se">>, 4),
    E(<<"lan2", "se">>, 5),          E(<<"yang", "hong", "se">>, 6),
    E(<<"bai", "se">>, 7),           E(<<"hui1", "se">>, 8),
    E(<<"qian", "hui1", "se">>, 9),  E(<<"hei", "se">>, 250),
    E(<<"zong", "se">>, 251),        E(<<"cheng2", "se">>, 30),
    E(<<"zi3", "se">>, 200),
    E(<<"R", "e", "d">>, 1),         E(<<"Y", "e", "l", "l", "o", "w">>, 2),
    E(<<"G", "r", "e", "e", "n">>, 3), E(<<"C", "y", "a", "n">>, 4),
    E(<<"B", "l", "u", "e">>, 5),    E(<<"M", "a", "g", "e", "n", "t", "a">>, 6),
    E(<<"W", "h", "i", "t", "e">>, 7), E(<<"G", "r", "a", "y">>, 8),
    E(<<"L", "i", "g", "h", "t", " ", "G", "r", "a", "y">>, 9),
    E(<<"B", "l", "a", "c", "k">>, 250), E(<<"B", "r", "o", "w", "n">>, 251),
    E(<<"O", "r", "a", "n", "g", "e">>, 30),
    E(<<"P", "u", "r", "p", "l", "e">>, 200) >>

\* self.shape_keywords
InitShapeKeywords == <<
    E(<<"zhi", "xian">>, "line"),            E(<<"xian">>, "line"),
    E(<<"yuan">>, "circle"),                 E(<<"yuan", "xing">>, "circle"),
    E(<<"hu">>, "arc"),                      E(<<"yuan", "hu">>, "arc"),
    E(<<"ju", "xing">>, "rectangle"),        E(<<"fang", "xing">>, "rectangle"),
    E(<<"zheng", "fang", "xing">>, "square"),
    E(<<"duo", "duan", "xian">>, "polyline"), E(<<"zhe", "xian">>, "polyline"),
    E(<<"wen", "ben">>, "text"),             E(<<"wen", "zi">>, "text"),
    E(<<"biao", "zhu">>, "dimension"),
    E(<<"chi", "cun4", "biao", "zhu">>, "dimension"),
    E(<<"qiang">>, "wall"),                  E(<<"qiang", "ti">>, "wall"),
    E(<<"men">>, "door"),                    E(<<"chuang1">>, "window"),
    E(<<"lou", "ti1">>, "stair"),            E(<<"zhu4", "zi5">>, "column"),
    E(<<"cha", "zuo">>, "outlet"),
    E(<<"kai", "guan">>, "switch"),
    E(<<"deng">>, "light"),                  E(<<"deng", "ju4">>, "light"),
    E(<<"pei", "dian", "xiang">>, "distribution_box"),
    E(<<"zhou">>, "shaft"),
    E(<<"chi3", "lun">>, "gear"),
    E(<<"zhou", "cheng">>, "bearing"),
    E(<<"fa", "lan">>, "flange") >>

\* self.action_keywords
InitActionKeywords == <<
    E(<<"hua">>, "draw"),            E(<<"hui", "zhi4">>, "draw"),
    E(<<"chuang", "jian">>, "draw"), E(<<"tian", "jia">>, "draw"),
    E(<<"xiu", "gai">>, "modify"),   E(<<"tiao", "zheng3">>, "modify"),
    E(<<"gai", "bian">>, "modify"),
    E(<<"yi", "dong">>, "move"),     E(<<"xuan", "zhuan">>, "rotate"),
    E(<<"suo", "fang4">>, "scale"),
    E(<<"fang4", "da">>, "scale_up"), E(<<"suo", "xiao">>, "scale_down"),
    E(<<"shan", "chu">>, "erase"),   E(<<"ca", "chu">>, "erase"),
    E(<<"yi", "chu">>, "erase"),
    E(<<"bao", "cun">>, "save"),
    E(<<"biao", "zhu">>, "dimension"),
    E(<<"tian2", "chong">>, "hatch"),
    E(<<"chuang", "jian", "tu", "ceng">>, "create_layer"),
    E(<<"qie", "huan", "tu", "ceng">>, "change_layer") >>

\* The attributes __init__ assigns (self.logger carries no data the parser
\* reads).  The assignment of self.domain_keywords is commented out
\* (lines 106-114), so the instance has no such attribute.
InitSelf ==
    [ color_rgb_map   |-> InitColorRgbMap,
      shape_keywords  |-> InitShapeKeywords,
      action_keywords |-> InitActionKeywords ]

HasAttr(obj, name) == name \in DOMAIN obj

----------------------------------------------------------------------------
(* Outcomes of a call: a value returned or an exception raised.            *)

Return(v) == [kind |-> "returned", value |-> v]
Raise(e) == [kind |-> "raised", exc |-> e]

----------------------------------------------------------------------------
(* _identify_command_type                                                  *)

\* A faulty variant of PairIntent that maps the shape tag wall as well.
PairIntentWithWall(action_type, shape_type) ==
    IF action_type # "draw" THEN ""
    ELSE CASE shape_type = "line" -> "draw_line"
           [] shape_type = "circle" -> "draw_circle"
           [] shape_type = "arc" -> "draw_arc"
           [] shape_type \in {"rectangle", "square"} -> "draw_rectangle"
           [] shape_type = "polyline" -> "draw_polyline"
           [] shape_type = "text" -> "draw_text"
           [] shape_type = "dimension" -> "add_dimension"
           [] shape_type = "wall" -> "draw_wall"
           [] OTHER -> ""

\* Lines 242-256: the intent of a (draw, shape tag) pair; "" when the pair
\* returns nothing and the scan goes on.
PairIntent(action_type, shape_type) ==
    IF action_type # "draw" THEN ""
    ELSE CASE shape_type = "line" -> "draw_line"
           [] shape_type = "circle" -> "draw_circle"
           [] shape_type = "arc" -> "draw_arc"
           [] shape_type \in {"rectangle", "square"} -> "draw_rectangle"
           [] shape_type = "polyline" -> "draw_polyline"
           [] shape_type = "text" -> "draw_text"
           [] shape_type = "dimension" -> "add_dimension"
           [] OTHER -> ""

\* Lines 240-256: the inner loop over self.shape_keywords, from entry i on.
RECURSIVE ScanShapes(_, _, _, _)
RECURSIVE ScanShape(_, _, _, _, _)
ScanShape(shapes, cmd, action_type, i, intent) ==
    IF Contains(cmd, shapes[i].k) /\ intent # "" THEN intent
    ELSE ScanShapes(shapes, cmd, action_type, i + 1)

ScanShapes(shapes, cmd, action_type, i) ==
    IF i > Len(shapes) THEN ""
    ELSE ScanShape(shapes, cmd, action_type, i, PairIntent(action_type, shapes[i].v))

\* Lines 219-256: the outer loop over self.action_keywords, from entry i on.
RECURSIVE ScanActions(_, _, _, _)
RECURSIVE ScanAction(_, _, _, _, _)
ScanAction(actions, shapes, cmd, i, intent) ==
    IF Contains(cmd, actions[i].k) /\ intent # "" THEN intent
    ELSE ScanActions(actions, shapes, cmd, i + 1)

ScanActions(actions, shapes, cmd, i) ==
    IF i > Len(actions) THEN ""
    ELSE ScanAction(actions, shapes, cmd, i, ScanShapes(shapes, cmd, actions[i].v, 1))

\* Line 259: the cues of a create-layer command.
LayerCues == << <<"chuang", "jian">>, <<"xin", "jian">>, <<"tian", "jia">> >>

\* Lines 258-283: the special-case checks, in the order of the code.
SpecialCases(cmd) ==
    IF Contains(cmd, <<"tu", "ceng">>)
         /\ \E i \in 1..Len(LayerCues) : Contains(cmd, LayerCues[i])
    THEN "create_layer"
    ELSE IF Contains(cmd, <<"biao", "zhu">>) THEN "add_dimension"
    ELSE IF Contains(cmd, <<"bao", "cun">>) THEN "save"
    ELSE "unknown"

\* Lines 219-283: the rules of the classifier, after the domain scan.
PairOrSpecial(intent, cmd) == IF intent # "" THEN intent ELSE SpecialCases(cmd)

ClassifyRules(obj, cmd) ==
    PairOrSpecial(ScanActions(obj.action_keywords, obj.shape_keywords, cmd, 1), cmd)

\* Lines 209-283.  Line 213 reads self.domain_keywords before anything else:
\* on an instance without that attribute Python raises AttributeError.
IdentifyCommandType(obj, cmd) ==
    IF ~HasAttr(obj, "domain_keywords")
    THEN Raise("AttributeError")
    ELSE Return(ClassifyRules(obj, cmd))


----------------------------------------------------------------------------
(* Lexical extractors.  Positions are 1-based; an "end" is the position    *)
(* after the last matched character.  A float is kept in tenths (2.5 is    *)
(* 25): the inputs of the model carry at most one fractional digit.        *)
(* A match is computed in stages, one operator per stage of the pattern.   *)

CharAt(s, i) == IF i >= 1 /\ i <= Len(s) THEN s[i] ELSE ""

Min(S) == CHOOSE x \in S : \A y \in S : x <= y

NoMatch == [ok |-> FALSE]

RECURSIVE SkipSpaces(_, _)
SkipSpaces(s, i) == IF IsSpace(CharAt(s, i)) THEN SkipSpaces(s, i + 1) ELSE i

RECURSIVE DigitsEnd(_, _)
DigitsEnd(s, i) == IF IsDigit(CharAt(s, i)) THEN DigitsEnd(s, i + 1) ELSE i

DigitValue(c) ==
    CASE c = "0" -> 0 [] c = "1" -> 1 [] c = "2" -> 2 [] c = "3" -> 3
      [] c = "4" -> 4 [] c = "5" -> 5 [] c = "6" -> 6 [] c = "7" -> 7
      [] c = "8" -> 8 [] c = "9" -> 9

\* The value of the digit run s[a..e-1].
RECURSIVE DigitsValue(_, _, _)
DigitsValue(s, a, e) ==
    IF e <= a THEN 0 ELSE DigitsValue(s, a, e - 1) * 10 + DigitValue(s[e - 1])

\* \.?\d*  after the digit run s[j0..j1-1]; 0 when that run is empty.
FractionEnd(s, j0, j1) ==
    IF j1 = j0 THEN 0
    ELSE DigitsEnd(s, IF CharAt(s, j1) = "." THEN j1 + 1 ELSE j1)

\* \d+\.?\d*  at position j0.
UnsignedNumberEnd(s, j0) == FractionEnd(s, j0, DigitsEnd(s, j0))

\* The end of a match of  -?\d+\.?\d*  at position i, 0 when there is none.
SignedNumberEnd(s, i) ==
    UnsignedNumberEnd(s, IF CharAt(s, i) = "-" THEN i + 1 ELSE i)

\* The digits s[j0..j1-1], then the fraction up to e, in tenths.
Tenths(s, j0, j1, e) ==
    DigitsValue(s, j0, j1) * 10
      + (IF CharAt(s, j1) = "." /\ j1 + 1 < e THEN DigitValue(s[j1 + 1]) ELSE 0)

Magnitude(s, j0, e) == Tenths(s, j0, DigitsEnd(s, j0), e)

\* float() of s[a..e-1], a text matched by  -?\d+\.?\d* , in tenths.
FloatOf(s, a, e) ==
    IF CharAt(s, a) = "-" THEN 0 - Magnitude(s, a + 1, e) ELSE Magnitude(s, a, e)

\* Lines 288-296: one match of the coordinate pattern
\*   \(?\s*(-?\d+\.?\d*)\s*,\s*(-?\d+\.?\d*)(?:\s*,\s*(-?\d+\.?\d*))?\s*\)?
\* and the coordinate it yields.  The stages, last first:
\*   \)?  after the blanks that end at h
CoordinateEnd(s, point, h) ==
    [ok |-> TRUE, point |-> point, end |-> IF CharAt(s, h) = ")" THEN h + 1 ELSE h]

\*   \s*  after the last number, which ends at p
CoordinateClose(s, point, p) == CoordinateEnd(s, point, SkipSpaces(s, p))

\*   the third number, at g, ending at e3 (0: the optional group is skipped)
CoordinateZ(s, x, y, e2, g, e3) ==
    IF e3 = 0
    THEN CoordinateClose(s, <<x, y, 0>>, e2)
    ELSE CoordinateClose(s, <<x, y, FloatOf(s, g, e3)>>, e3)

\*   \s*  after the second comma
CoordinateZAt(s, x, y, e2, g) == CoordinateZ(s, x, y, e2, g, SignedNumberEnd(s, g))

\* A faulty variant of CoordinateOptional that leaves a coordinate without a
\* third number at two elements.
CoordinateOptionalFlat(s, x, y, e2, f) ==
    IF CharAt(s, f) = ","
    THEN CoordinateZAt(s, x, y, e2, SkipSpaces(s, f + 1))
    ELSE CoordinateClose(s, <<x, y>>, e2)

\*   the optional group (?:\s*,\s*(...))? : f is the place after the blanks
CoordinateOptional(s, x, y, e2, f) ==
    IF CharAt(s, f) = ","
    THEN CoordinateZAt(s, x, y, e2, SkipSpaces(s, f + 1))
    ELSE CoordinateClose(s, <<x, y, 0>>, e2)

\*   the second number, at d, ending at e2
CoordinateY(s, x, d, e2) ==
    IF e2 = 0 THEN NoMatch
    ELSE CoordinateOptional(s, x, FloatOf(s, d, e2), e2, SkipSpaces(s, e2))

CoordinateYAt(s, x, d) == CoordinateY(s, x, d, SignedNumberEnd(s, d))

\*   \s*,\s*  after the first number: c is the place after the blanks
CoordinateComma(s, x, c) ==
    IF CharAt(s, c) # "," THEN NoMatch
    ELSE CoordinateYAt(s, x, SkipSpaces(s, c + 1))

\*   the first number, at b, ending at e1
CoordinateX(s, b, e1) ==
    IF e1 = 0 THEN NoMatch
    ELSE CoordinateComma(s, FloatOf(s, b, e1), SkipSpaces(s, e1))

CoordinateXAt(s, b) == CoordinateX(s, b, SignedNumberEnd(s, b))

\*   \(?\s*  at position i
CoordinateMatchAt(s, i) ==
    CoordinateXAt(s, SkipSpaces(s, IF CharAt(s, i) = "(" THEN i + 1 ELSE i))

\* re.finditer from position i on: the leftmost match, then on from its end.
RECURSIVE CoordinatesFrom(_, _)
RECURSIVE CoordinatesNext(_, _, _)
CoordinatesNext(s, i, m) ==
    IF m.ok THEN <<m.point>> \o CoordinatesFrom(s, m.end)
    ELSE CoordinatesFrom(s, i + 1)

CoordinatesFrom(s, i) ==
    IF i > Len(s) THEN <<>> ELSE CoordinatesNext(s, i, CoordinateMatchAt(s, i))

\* _extract_coordinates
ExtractCoordinates(text) == CoordinatesFrom(text, 1)

\* re.findall(r'(-?\d+\.?\d*)') from position i on.
RECURSIVE NumbersFrom(_, _)
RECURSIVE NumbersNext(_, _, _)
NumbersNext(s, i, e) ==
    IF e # 0 THEN <<FloatOf(s, i, e)>> \o NumbersFrom(s, e)
    ELSE NumbersFrom(s, i + 1)

NumbersFrom(s, i) ==
    IF i > Len(s) THEN <<>> ELSE NumbersNext(s, i, SignedNumberEnd(s, i))

\* _extract_numbers
ExtractNumbers(text) == NumbersFrom(text, 1)

\* The first cue of `cues` that matches at position i of s, 0 when none does
\* (an alternation (?:c1|c2|...): the alternatives are tried in order).
RECURSIVE CueAt(_, _, _, _)
CueAt(s, i, cues, n) ==
    IF n > Len(cues) THEN 0
    ELSE IF MatchAt(s, i, cues[n]) THEN n
    ELSE CueAt(s, i, cues, n + 1)

\* The first position >= i that holds a digit, 0 when there is none.
RECURSIVE FirstDigit(_, _)
FirstDigit(s, i) ==
    IF i > Len(s) THEN 0
    ELSE IF IsDigit(s[i]) THEN i
    ELSE FirstDigit(s, i + 1)

\* The number that starts at position a.
NumberAt(s, a) == [ok |-> TRUE, value |-> FloatOf(s, a, SignedNumberEnd(s, a))]

\* re.search of  (?:cues)[^\d]*?(N)  from position i on, where N is
\* -?\d+\.?\d* (signed) or \d+\.?\d* : the leftmost cue that a digit follows;
\* the lazy [^\d]*? stops before a "-" that directly precedes the first digit.
\* `s` is the text as the pattern sees it (lowered under re.IGNORECASE).
RECURSIVE NamedNumberFrom(_, _, _, _)
RECURSIVE NamedNumberCue(_, _, _, _, _)
RECURSIVE NamedNumberDigit(_, _, _, _, _, _)
\*   the cue ends at e and the first digit after it is at d (0: none)
NamedNumberDigit(s, cues, signed, i, e, d) ==
    IF d = 0 THEN NamedNumberFrom(s, cues, signed, i + 1)
    ELSE NumberAt(s, IF signed /\ d - 1 >= e /\ CharAt(s, d - 1) = "-"
                     THEN d - 1 ELSE d)

\*   cue number n matches at position i (0: none does)
NamedNumberCue(s, cues, signed, i, n) ==
    IF n = 0 THEN NamedNumberFrom(s, cues, signed, i + 1)
    ELSE NamedNumberDigit(s, cues, signed, i, i + Len(cues[n]),
                          FirstDigit(s, i + Len(cues[n])))

NamedNumberFrom(s, cues, signed, i) ==
    IF i > Len(s) THEN NoMatch
    ELSE NamedNumberCue(s, cues, signed, i, CueAt(s, i, cues, 1))

NamedNumber(s, cues, signed) == NamedNumberFrom(s, cues, signed, 1)

\* A match's value, or the default without a match.
OrDefault(m, default) == IF m.ok THEN m.value ELSE default

\* A labelled number, or the default when the label is absent.
NamedOr(s, cues, signed, default) == OrDefault(NamedNumber(s, cues, signed), default)

\* The positions m > k of a quote: where  (.*?)["\']  can end.
ClosingQuotes(s, k) == { m \in (k + 1)..Len(s) : IsQuote(s[m]) }

\* The positions k >= e of a quote that only non-word characters separate
\* from e and that another quote follows: where  [^\w]*?["\']  can end
\* after a cue that ends at e.
OpeningQuotes(s, e) ==
    { k \in e..Len(s) : /\ IsQuote(s[k])
                        /\ \A j \in e..(k - 1) : ~IsWord(s[j])
                        /\ ClosingQuotes(s, k) # {} }

\* The text between the quote at k and the next quote.
Quoted(s, k) ==
    [ok |-> TRUE, value |-> SubSeq(s, k + 1, Min(ClosingQuotes(s, k)) - 1)]

\* The text quoted at the first of the positions ks.
QuotedAtFirst(s, ks) == IF ks = {} THEN NoMatch ELSE Quoted(s, Min(ks))

\* re.search of  (?:cues)[^\w]*?["\'](.*?)["\']  from position i on.  `t` is
\* the text as the pattern sees it (lowered under re.IGNORECASE) and `s` the
\* text the group is taken from.
RECURSIVE QuotedAfterCueFrom(_, _, _, _)
RECURSIVE QuotedAfterCueAt(_, _, _, _, _)
RECURSIVE QuotedAfterCueOpen(_, _, _, _, _)
QuotedAfterCueOpen(s, t, cues, i, ks) ==
    IF ks = {} THEN QuotedAfterCueFrom(s, t, cues, i + 1) ELSE Quoted(s, Min(ks))

QuotedAfterCueAt(s, t, cues, i, n) ==
    IF n = 0 THEN QuotedAfterCueFrom(s, t, cues, i + 1)
    ELSE QuotedAfterCueOpen(s, t, cues, i, OpeningQuotes(s, i + Len(cues[n])))

QuotedAfterCueFrom(s, t, cues, i) ==
    IF i > Len(s) THEN NoMatch
    ELSE QuotedAfterCueAt(s, t, cues, i, CueAt(t, i, cues, 1))

QuotedAfterCue(s, t, cues) == QuotedAfterCueFrom(s, t, cues, 1)

\* re.search of  ["\'](.*?)["\']  : the first quote that another one follows.
FirstQuoted(s) ==
    QuotedAtFirst(s, { k \in 1..Len(s) : IsQuote(s[k]) /\ ClosingQuotes(s, k) # {} })


----------------------------------------------------------------------------
(* extract_color_from_command (lines 117-147)                              *)

\* The argument None: a one-element sequence whose element is no character,
\* so that it differs from every text.
None == <<"None">>

\* Line 147 (and 120): the colour returned when nothing else applies.
DefaultColor == 7

\* int(command) on a str: blanks around the literal are ignored and a sign
\* may precede the digits; any other text raises ValueError, which the bare
\* except of lines 126-127 swallows.
IntBody(t) == IF t # <<>> /\ Head(t) \in {"+", "-"} THEN Tail(t) ELSE t

IsIntLiteral(t) ==
    /\ IntBody(t) # <<>>
    /\ \A i \in 1..Len(IntBody(t)) : IsDigit(IntBody(t)[i])

IntOfLiteral(t) ==
    IF Head(t) = "-" THEN 0 - DigitsValue(IntBody(t), 1, Len(IntBody(t)) + 1)
    ELSE DigitsValue(IntBody(t), 1, Len(IntBody(t)) + 1)

PyInt(s) ==
    IF IsIntLiteral(Strip(s)) THEN [ok |-> TRUE, value |-> IntOfLiteral(Strip(s))]
    ELSE NoMatch

\* A faulty variant of ColorIndex, without the range test of line 124.
ColorIndexUnchecked(num) == num

\* Lines 122-125: the number, when it is a colour index.
ColorIndex(num) == IF num.ok /\ num.value >= 1 /\ num.value <= 255 THEN num ELSE NoMatch

\* Lines 133-135: the first name of the table, in insertion order, whose
\* lowered form occurs in the lowered command.
RECURSIVE ColorByName(_, _, _)
ColorByName(map, cmd, i) ==
    IF i > Len(map) THEN NoMatch
    ELSE IF Contains(cmd, Lower(map[i].k)) THEN [ok |-> TRUE, value |-> map[i].v]
    ELSE ColorByName(map, cmd, i + 1)

\* The characters of  [a-zA-Z\u4e00-\u9fa5] : Latin letters and CJK
\* characters (every code that is not an ASCII character or a full-width
\* punctuation mark).
Letters == Upper \cup { LowerChar(u) : u \in Upper }
IsColorChar(c) == c # "" /\ (c \in Letters \/ c \notin Digits \cup NonWord \cup {"+", "_"})

RECURSIVE ColorRunEnd(_, _)
ColorRunEnd(s, i) == IF IsColorChar(CharAt(s, i)) THEN ColorRunEnd(s, i + 1) ELSE i

\* Line 138: the end of the match of  ([深浅淡]?[a-zA-Z\u4e00-\u9fa5]+色)  at
\* position i, 0 when there is none.  The three optional characters are in
\* the class that follows them, so the match is the run of class characters
\* from i up to its last 色, which at least one character precedes.
ColorMatchEnds(s, i) == { m \in (i + 1)..(ColorRunEnd(s, i) - 1) : s[m] = "se" }

Max(S) == CHOOSE x \in S : \A y \in S : x >= y

ColorMatchEnd(s, i) == IF ColorMatchEnds(s, i) = {} THEN 0 ELSE Max(ColorMatchEnds(s, i))

\* Value of the key of the table that equals name (line 143-144).
RECURSIVE ColorOfKey(_, _, _)
ColorOfKey(map, name, i) ==
    IF i > Len(map) THEN NoMatch
    ELSE IF map[i].k = name THEN [ok |-> TRUE, value |-> map[i].v]
    ELSE ColorOfKey(map, name, i + 1)

\* Lines 138-144: re.findall from position i on and the first match that is
\* a key of the table.
RECURSIVE ColorByPatternFrom(_, _, _)
RECURSIVE ColorByPatternMatch(_, _, _, _)
RECURSIVE ColorByPatternKey(_, _, _, _)
ColorByPatternKey(map, s, e, found) ==
    IF found.ok THEN found ELSE ColorByPatternFrom(map, s, e + 1)

ColorByPatternMatch(map, s, i, e) ==
    IF e = 0 THEN ColorByPatternFrom(map, s, i + 1)
    ELSE ColorByPatternKey(map, s, e, ColorOfKey(map, SubSeq(s, i, e), 1))

ColorByPatternFrom(map, s, i) ==
    IF i > Len(s) THEN NoMatch
    ELSE ColorByPatternMatch(map, s, i, ColorMatchEnd(s, i))

\* Lines 129-147, on the lowered command.
ColorByText(map, cmd, named) ==
    IF named.ok THEN named.value
    ELSE OrDefault(ColorByPatternFrom(map, cmd, 1), DefaultColor)

ColorOrText(obj, cmd, index) ==
    IF index.ok THEN index.value
    ELSE ColorByText(obj.color_rgb_map, Lower(cmd),
                     ColorByName(obj.color_rgb_map, Lower(cmd), 1))

ExtractColorFromCommand(obj, cmd) ==
    IF cmd = None THEN DefaultColor
    ELSE ColorOrText(obj, cmd, ColorIndex(PyInt(cmd)))

----------------------------------------------------------------------------
(* Configuration and messages                                              *)

\* config["output"], read from config.json when the module is imported
\* (lines 10-12).  The file is not among the sources; the values are those
\* of the example of the specification: directory "out", default file name
\* "drawing.dwg".
Config ==
    [ directory |-> <<"o", "u", "t">>,
      default_filename |-> <<"d", "r", "a", "w", "i", "n", "g", ".", "d", "w", "g">> ]

\* os.path.join(a, b) on a POSIX system.
OsPathJoin(a, b) ==
    IF b # <<>> /\ Head(b) = "/" THEN b
    ELSE IF a = <<>> \/ a[Len(a)] = "/" THEN a \o b
    ELSE a \o <<"/">> \o b

\* "使用默认坐标，因为命令中未提供足够的坐标信息"
NoteDefaultCoordinates ==
    <<"shi3", "yong", "mo", "ren", "zuo4", "biao", "douhao", "yin", "wei",
      "ming4", "ling", "zhong1", "wei4", "ti2", "gong", "zu", "gou", "de",
      "zuo4", "biao", "xin4", "xi">>

\* "绘制多段线需要至少两个坐标点"
MsgPolylineNeedsPoints ==
    <<"hui", "zhi4", "duo", "duan", "xian", "xu", "yao", "zhi3", "shao",
      "liang", "ge", "zuo4", "biao", "dian3">>

\* "绘制填充需要至少3个点来定义边界"
MsgHatchNeedsPoints ==
    <<"hui", "zhi4", "tian2", "chong", "xu", "yao", "zhi3", "shao", "3", "ge",
      "dian3", "lai", "ding", "yi4", "bian1", "jie4">>

\* "绘制墙体需要提供起点和终点坐标"
MsgWallNeedsPoints ==
    <<"hui", "zhi4", "qiang", "ti", "xu", "yao", "ti2", "gong", "qi", "dian3",
      "he2", "zhong", "dian3", "zuo4", "biao">>

\* "无法识别的命令类型"
MsgUnknownCommandType ==
    <<"wu", "fa", "shi2", "bie", "de", "ming4", "ling", "lei", "xing2">>

\* "示例文本"
DefaultText == <<"shi4", "li", "wen", "ben">>

Origin == <<0, 0, 0>>


----------------------------------------------------------------------------
(* Parameter builders.  Each takes the command text it is called with.     *)

\* A faulty variant of DrawLine that takes the last two coordinates.
DrawLineLastTwo(coordinates) ==
    IF Len(coordinates) >= 2
    THEN [ type |-> "draw_line",
           start_point |-> coordinates[Len(coordinates) - 1],
           end_point |-> coordinates[Len(coordinates)] ]
    ELSE [ type |-> "draw_line",
           start_point |-> Origin,
           end_point |-> <<1000, 1000, 0>>,
           note |-> NoteDefaultCoordinates ]

\* Lines 311-326
DrawLine(coordinates) ==
    IF Len(coordinates) >= 2
    THEN [ type |-> "draw_line",
           start_point |-> coordinates[1],
           end_point |-> coordinates[2] ]
    ELSE [ type |-> "draw_line",
           start_point |-> Origin,
           end_point |-> <<1000, 1000, 0>>,
           note |-> NoteDefaultCoordinates ]

\* _parse_draw_line
ParseDrawLine(cmd) == DrawLine(ExtractCoordinates(cmd))

RadiusCues == << <<"ban", "jing">>, <<"r">>, <<"r", "a", "d", "i", "u", "s">> >>

\* A faulty variant of RadiusOf that prefers the first number of the text to
\* the labelled one.
RadiusOfPositionFirst(radius_match, numbers) ==
    IF Len(numbers) > 0 THEN numbers[1]
    ELSE IF radius_match.ok THEN radius_match.value
    ELSE 500

\* Lines 338-345 and 379-386: the labelled radius, else the first number,
\* else 50.0.
RadiusOf(radius_match, numbers) ==
    IF radius_match.ok THEN radius_match.value
    ELSE IF Len(numbers) > 0 THEN numbers[1]
    ELSE 500

\* Lines 332-345 and 365-386: the radius of a circle or an arc.
Radius(cmd) == RadiusOf(NamedNumber(Lower(cmd), RadiusCues, TRUE), ExtractNumbers(cmd))

\* Lines 349-353, 369-373 and 524-528: the first coordinate, else the origin.
FirstOrOrigin(coordinates) ==
    IF Len(coordinates) > 0 THEN coordinates[1] ELSE Origin

FirstCoordinate(cmd) == FirstOrOrigin(ExtractCoordinates(cmd))

\* _parse_draw_circle
ParseDrawCircle(cmd) ==
    [ type |-> "draw_circle", center |-> FirstCoordinate(cmd), radius |-> Radius(cmd) ]

StartAngleCues ==
    << <<"qi", "shi", "jiao", "du">>,
       <<"s", "t", "a", "r", "t", " ", "a", "n", "g", "l", "e">> >>

EndAngleCues ==
    << <<"jie", "shu", "jiao", "du">>, <<"e", "n", "d", " ", "a", "n", "g", "l", "e">> >>

\* _parse_draw_arc
ParseDrawArc(cmd) ==
    [ type |-> "draw_arc",
      center |-> FirstCoordinate(cmd),
      radius |-> Radius(cmd),
      start_angle |-> NamedOr(Lower(cmd), StartAngleCues, TRUE, 0),
      end_angle |-> NamedOr(Lower(cmd), EndAngleCues, TRUE, 900) ]

WidthCues == << <<"kuan", "du">>, <<"w", "i", "d", "t", "h">> >>
HeightCues == << <<"gao", "du">>, <<"h", "e", "i", "g", "h", "t">> >>

\* A faulty variant of RectangleFrom that measures corner2 from the origin.
RectangleFromOrigin(corner1, width, height) ==
    [ type |-> "draw_rectangle",
      corner1 |-> corner1,
      corner2 |-> <<width, height, 0>> ]

\* Lines 449-462: corner1 and the corner at (width, height) from it.
RectangleFrom(corner1, width, height) ==
    [ type |-> "draw_rectangle",
      corner1 |-> corner1,
      corner2 |-> << corner1[1] + width, corner1[2] + height, corner1[3] >> ]

\* Lines 427-462
DrawRectangle(coordinates, width, height) ==
    IF Len(coordinates) >= 2
    THEN [ type |-> "draw_rectangle",
           corner1 |-> coordinates[1],
           corner2 |-> coordinates[2] ]
    ELSE RectangleFrom(IF Len(coordinates) = 1 THEN coordinates[1] ELSE Origin,
                       width, height)

\* _parse_draw_rectangle
ParseDrawRectangle(cmd) ==
    DrawRectangle(ExtractCoordinates(cmd),
                  NamedOr(Lower(cmd), WidthCues, TRUE, 1000),
                  NamedOr(Lower(cmd), HeightCues, TRUE, 1000))

\* A faulty variant of DrawPolyline that accepts a single coordinate.
DrawPolylineOfOne(coordinates, closed) ==
    IF Len(coordinates) >= 1
    THEN [ type |-> "draw_polyline", points |-> coordinates, closed |-> closed ]
    ELSE [ type |-> "error", message |-> MsgPolylineNeedsPoints ]

\* Lines 472-484
DrawPolyline(coordinates, closed) ==
    IF Len(coordinates) >= 2
    THEN [ type |-> "draw_polyline", points |-> coordinates, closed |-> closed ]
    ELSE [ type |-> "error", message |-> MsgPolylineNeedsPoints ]

\* _parse_draw_polyline
ParseDrawPolyline(cmd) ==
    DrawPolyline(ExtractCoordinates(cmd),
                 Contains(cmd, <<"bi4", "he">>) \/ Contains(cmd, <<"feng", "bi4">>))

\* Line 492: the character class [文本内容|text|内容] of text_pattern.
TextLabelChars == {"wen", "ben", "nei", "rong", "|", "t", "e", "x"}

\* Lines 492-493: re.search of  [文本内容|text|内容][：:]\s*["\'](.*?)["\']
LabelledText(s) ==
    QuotedAtFirst(s,
        { k \in 1..Len(s) :
            /\ IsQuote(s[k])
            /\ ClosingQuotes(s, k) # {}
            /\ \E i \in 1..(k - 2) :
                  /\ s[i] \in TextLabelChars
                  /\ s[i + 1] \in {"maohao", ":"}
                  /\ \A j \in (i + 2)..(k - 1) : IsSpace(s[j]) })

\* Lines 495-506: the labelled text, else the first quoted text, else "示例文本".
TextOr(text_match, quote_match) ==
    IF text_match.ok THEN text_match.value
    ELSE IF quote_match.ok THEN quote_match.value
    ELSE DefaultText

RotationCues ==
    << <<"xuan", "zhuan">>, <<"jiao", "du">>,
       <<"r", "o", "t", "a", "t", "i", "o", "n">> >>

\* _parse_draw_text
ParseDrawText(cmd) ==
    [ type |-> "draw_text",
      position |-> FirstCoordinate(cmd),
      text |-> TextOr(LabelledText(cmd), FirstQuoted(cmd)),
      height |-> NamedOr(Lower(cmd), HeightCues, TRUE, 25),
      rotation |-> NamedOr(Lower(cmd), RotationCues, TRUE, 0) ]

PatternCues == << <<"tu", "an">>, <<"p", "a", "t", "t", "e", "r", "n">> >>

\* The closing quotes after k that an apostrophe follows.
ClosingBeforeApostrophe(s, k) ==
    { m \in ClosingQuotes(s, k) : CharAt(s, m + 1) = "'" }

\* Line 546: re.search of  (?:图案|pattern)[^\w]*?["\'](.*?)["\']\'  from
\* position i on: the closing quote must be followed by an apostrophe.
RECURSIVE QuotedPatternFrom(_, _, _)
RECURSIVE QuotedPatternAt(_, _, _, _)
RECURSIVE QuotedPatternOpen(_, _, _, _)
QuotedPatternOpen(s, t, i, ks) ==
    IF ks = {} THEN QuotedPatternFrom(s, t, i + 1)
    ELSE [ok |-> TRUE,
          value |-> SubSeq(s, Min(ks) + 1,
                           Min(ClosingBeforeApostrophe(s, Min(ks))) - 1)]

QuotedPatternAt(s, t, i, n) ==
    IF n = 0 THEN QuotedPatternFrom(s, t, i + 1)
    ELSE QuotedPatternOpen(s, t, i,
            { k \in OpeningQuotes(s, i + Len(PatternCues[n])) :
                ClosingBeforeApostrophe(s, k) # {} })

QuotedPatternFrom(s, t, i) ==
    IF i > Len(s) THEN NoMatch
    ELSE QuotedPatternAt(s, t, i, CueAt(t, i, PatternCues, 1))

\* The first position >= i of a word character, 0 when there is none.
RECURSIVE FirstWordChar(_, _)
FirstWordChar(s, i) ==
    IF i > Len(s) THEN 0
    ELSE IF IsWord(s[i]) THEN i
    ELSE FirstWordChar(s, i + 1)

RECURSIVE WordEnd(_, _)
WordEnd(s, i) == IF i <= Len(s) /\ IsWord(s[i]) THEN WordEnd(s, i + 1) ELSE i

\* Line 547: re.search of  (?:图案|pattern)[^\w]*?(\w+)  from position i on.
RECURSIVE WordPatternFrom(_, _, _)
RECURSIVE WordPatternAt(_, _, _, _)
RECURSIVE WordPatternWord(_, _, _, _)
WordPatternWord(s, t, i, w) ==
    IF w = 0 THEN WordPatternFrom(s, t, i + 1)
    ELSE [ok |-> TRUE, value |-> SubSeq(s, w, WordEnd(s, w) - 1)]

WordPatternAt(s, t, i, n) ==
    IF n = 0 THEN WordPatternFrom(s, t, i + 1)
    ELSE WordPatternWord(s, t, i, FirstWordChar(s, i + Len(PatternCues[n])))

WordPatternFrom(s, t, i) ==
    IF i > Len(s) THEN NoMatch
    ELSE WordPatternAt(s, t, i, CueAt(t, i, PatternCues, 1))

\* Lines 550-554: the first of the two patterns that matches, upper-cased.
PatternNameOf(quoted, word) ==
    IF quoted.ok THEN ToUpper(quoted.value)
    ELSE IF word.ok THEN ToUpper(word.value)
    ELSE <<"S", "O", "L", "I", "D">>

\* Lines 544-554: the pattern name of a hatch.
PatternName(cmd) ==
    PatternNameOf(QuotedPatternFrom(cmd, Lower(cmd), 1),
                  WordPatternFrom(cmd, Lower(cmd), 1))

ScaleCues == << <<"bi", "li">>, <<"suo", "fang4">>, <<"s", "c", "a", "l", "e">> >>

\* A faulty variant of DrawHatch that accepts a boundary of two points.
DrawHatchOfTwo(coordinates, pattern_name, scale) ==
    IF Len(coordinates) >= 2
    THEN [ type |-> "draw_hatch",
           points |-> coordinates,
           pattern_name |-> pattern_name,
           scale |-> scale ]
    ELSE [ type |-> "error", message |-> MsgHatchNeedsPoints ]

\* Lines 564-578
DrawHatch(coordinates, pattern_name, scale) ==
    IF Len(coordinates) >= 3
    THEN [ type |-> "draw_hatch",
           points |-> coordinates,
           pattern_name |-> pattern_name,
           scale |-> scale ]
    ELSE [ type |-> "error", message |-> MsgHatchNeedsPoints ]

\* _parse_draw_hatch
ParseDrawHatch(cmd) ==
    DrawHatch(ExtractCoordinates(cmd), PatternName(cmd),
              NamedOr(Lower(cmd), ScaleCues, FALSE, 10))

WallWidthCues == << <<"kuan", "du">>, <<"kuan">>, <<"hou">>, <<"hou", "du">> >>

\* Lines 708-723
DrawWall(coordinates, width) ==
    IF Len(coordinates) >= 2
    THEN [ type |-> "draw_wall",
           start_point |-> coordinates[1],
           end_point |-> coordinates[2],
           width |-> width ]
    ELSE [ type |-> "error", message |-> MsgWallNeedsPoints ]

\* _parse_save (lines 696-723): the body is that of a wall builder.
ParseSave(cmd) ==
    DrawWall(ExtractCoordinates(cmd), NamedOr(cmd, WallWidthCues, FALSE, 100))

PathCues == << <<"lu", "jing">>, <<"bao", "cun", "dao">>, <<"p", "a", "t", "h">> >>

\* Lines 731-740
Save(path_match) ==
    [ type |-> "save",
      file_path |-> IF path_match.ok THEN path_match.value
                    ELSE OsPathJoin(Config.directory, Config.default_filename) ]

\* _parse_create_layer (lines 725-740): the body is that of the save builder.
ParseCreateLayer(cmd) == Save(QuotedAfterCue(cmd, Lower(cmd), PathCues))

----------------------------------------------------------------------------
(* parse_command / process_command                                         *)

\* Lines 170-207: the dispatch on the command type.  No method
\* _parse_draw_wall is defined (lines 742-792 are commented out), so that
\* branch raises AttributeError.
Dispatch(command_type, cmd) ==
    CASE command_type = "draw_line" -> Return(ParseDrawLine(cmd))
      [] command_type = "draw_circle" -> Return(ParseDrawCircle(cmd))
      [] command_type = "draw_arc" -> Return(ParseDrawArc(cmd))
      [] command_type = "draw_rectangle" -> Return(ParseDrawRectangle(cmd))
      [] command_type = "draw_polyline" -> Return(ParseDrawPolyline(cmd))
      [] command_type = "draw_text" -> Return(ParseDrawText(cmd))
      [] command_type = "draw_hatch" -> Return(ParseDrawHatch(cmd))
      [] command_type = "save" -> Return(ParseSave(cmd))
      [] command_type = "draw_wall" -> Raise("AttributeError")
      [] command_type = "create_layer" -> Return(ParseCreateLayer(cmd))
      [] OTHER -> Return([ type |-> "unknown",
                           error |-> MsgUnknownCommandType,
                           original_command |-> cmd ])

\* Line 164: command.lower().strip()
Normalize(raw) == Strip(Lower(raw))

\* parse_command (lines 159-207); process_command (lines 149-157) returns
\* what parse_command returns.
Dispatched(identified, cmd) ==
    IF identified.kind = "raised" THEN identified
    ELSE Dispatch(identified.value, cmd)

ParseCommand(obj, raw) ==
    Dispatched(IdentifyCommandType(obj, Normalize(raw)), Normalize(raw))

----------------------------------------------------------------------------
(* The inputs of the model                                                 *)

MaxWords == 3     \* words in a command
MaxPoints == 3    \* coordinates after the words of a command
MaxParts == 3     \* fragments in a text handed to a builder
MaxColorParts == 2  \* fragments in a text handed to the colour resolver
MaxFaults == 1     \* COM members that raise during one call
MaxEntities == 2   \* entities in the drawing
MaxBlocks == 1     \* blocks in the drawing

\* The words commands are made of:
\* 画  新建  添加  直线  圆弧  多段线  标注  图层  保存  填充  and a blank.
Words ==
    { <<"hua">>, <<"xin", "jian">>, <<"tian", "jia">>, <<"zhi", "xian">>,
      <<"yuan", "hu">>, <<"duo", "duan", "xian">>, <<"biao", "zhu">>,
      <<"tu", "ceng">>, <<"bao", "cun">>, <<"tian2", "chong">>, <<" ">> }

\* " (0,0)", " (10,0)", " (10,10)": the boundary of the hatch example.
ExamplePoints ==
    << <<" ", "(", "0", ",", "0", ")">>,
       <<" ", "(", "1", "0", ",", "0", ")">>,
       <<" ", "(", "1", "0", ",", "1", "0", ")">> >>

\* The first k example points, taken cyclically.
RECURSIVE PointList(_)
PointList(k) ==
    IF k = 0 THEN <<>>
    ELSE PointList(k - 1) \o ExamplePoints[((k - 1) % Len(ExamplePoints)) + 1]

\* The fragments of the texts handed to the builders:
\* "(0,0)", " (10,0)", "(10,10", ",5)", "-1,2.5 ", "保存到 \"A.dwg\"",
\* "宽度2.5", "图案 ansi31", "比例2".
Parts ==
    { <<"(", "0", ",", "0", ")">>,
      <<" ", "(", "1", "0", ",", "0", ")">>,
      <<"(", "1", "0", ",", "1", "0">>,
      <<",", "5", ")">>,
      <<"-", "1", ",", "2", ".", "5", " ">>,
      <<"bao", "cun", "dao", " ", "\"", "A", ".", "d", "w", "g", "\"">>,
      <<"kuan", "du", "2", ".", "5">>,
      <<"tu", "an", " ", "a", "n", "s", "i", "3", "1">>,
      <<"bi", "li", "2">> }

\* The fragments of the texts handed to _parse_draw_line:
\* "画直线 (0,0)", " 到 ", "(10,10)", " (10,0)", "-1,2.5 ", ",5)".
LineParts ==
    { <<"hua", "zhi", "xian", " ", "(", "0", ",", "0", ")">>,
      <<" ", "dao", " ">>,
      <<"(", "1", "0", ",", "1", "0", ")">>,
      <<" ", "(", "1", "0", ",", "0", ")">>,
      <<"-", "1", ",", "2", ".", "5", " ">>,
      <<",", "5", ")">> }

\* The fragments of the texts handed to _parse_draw_circle:
\* "画圆 ", "中心", "(0,0)", " 50", " 半径50", " (10,0)", "r", "-1,2.5 ".
CircleParts ==
    { <<"hua", "yuan", " ">>,
      <<"zhong1", "xin1">>,
      <<"(", "0", ",", "0", ")">>,
      <<" ", "5", "0">>,
      <<" ", "ban", "jing", "5", "0">>,
      <<" ", "(", "1", "0", ",", "0", ")">>,
      <<"r">>,
      <<"-", "1", ",", "2", ".", "5", " ">> }

\* The fragments of the texts handed to _parse_draw_rectangle:
\* "画矩形 ", "(0,0)", " (10,0)", " 宽度20", " 高度5", "WIDTH 2.5", "-1,2.5 ".
RectangleParts ==
    { <<"hua", "ju", "xing", " ">>,
      <<"(", "0", ",", "0", ")">>,
      <<" ", "(", "1", "0", ",", "0", ")">>,
      <<" ", "kuan", "du", "2", "0">>,
      <<" ", "gao", "du", "5">>,
      <<"W", "I", "D", "T", "H", " ", "2", ".", "5">>,
      <<"-", "1", ",", "2", ".", "5", " ">> }

\* The fragments of the texts handed to _parse_draw_polyline:
\* "画多段线", " (0,0)", " (10,0)", " (10,10)", " 闭合", "封闭", "闭".
PolylineParts ==
    { <<"hua", "duo", "duan", "xian">>,
      <<" ", "(", "0", ",", "0", ")">>,
      <<" ", "(", "1", "0", ",", "0", ")">>,
      <<" ", "(", "1", "0", ",", "1", "0", ")">>,
      <<" ", "bi4", "he">>,
      <<"feng", "bi4">>,
      <<"bi4">> }

\* The fragments of the texts handed to _parse_draw_hatch:
\* "画填充", " (0,0)", " (10,0)", " (10,10)", " 图案 ansi31", " 比例2".
HatchParts ==
    { <<"hua", "tian2", "chong">>,
      <<" ", "(", "0", ",", "0", ")">>,
      <<" ", "(", "1", "0", ",", "0", ")">>,
      <<" ", "(", "1", "0", ",", "1", "0", ")">>,
      <<" ", "tu", "an", " ", "a", "n", "s", "i", "3", "1">>,
      <<" ", "bi", "li", "2">> }

\* Well-formed coordinate substrings and what separates them, each with the
\* coordinates written in it (in tenths):
\* "(0,0)", " (10,0)", "(1,2,3)", "( -1 , 2.5 )", " 到 ", ",".
CoordinateTexts ==
    << [text |-> <<"(", "0", ",", "0", ")">>, points |-> << <<0, 0, 0>> >>],
       [text |-> <<" ", "(", "1", "0", ",", "0", ")">>, points |-> << <<100, 0, 0>> >>],
       [text |-> <<"(", "1", ",", "2", ",", "3", ")">>, points |-> << <<10, 20, 30>> >>],
       [text |-> <<"(", " ", "-", "1", " ", ",", " ", "2", ".", "5", " ", ")">>,
        points |-> << <<0 - 10, 25, 0>> >>],
       [text |-> <<" ", "dao", " ">>, points |-> <<>>],
       [text |-> <<",">>, points |-> <<>>] >>

CoordinateParts == { CoordinateTexts[i].text : i \in 1..Len(CoordinateTexts) }

\* The words of the commands handed to the classifier:
\* 画  创建  墙  门  直线  标注  保存  图层  修改.
ClassifierWords ==
    { <<"hua">>, <<"chuang", "jian">>, <<"qiang">>, <<"men">>, <<"zhi", "xian">>,
      <<"biao", "zhu">>, <<"bao", "cun">>, <<"tu", "ceng">>, <<"xiu", "gai">> }

\* A few words and fragments, for sequences of calls of every method.
FewWords == { <<"hua">>, <<"zhi", "xian">>, <<"bao", "cun">> }
FewParts == { <<"(", "0", ",", "0", ")">>, <<" ", "(", "1", "0", ",", "0", ")">>,
              <<"ban", "jing", "5">> }

\* The input a caller is preparing: a command (words, then coordinates) for
\* process_command, or a text (fragments) for a direct call of a builder.
EmptyCommand == [kind |-> "command", words |-> <<>>, points |-> 0]
EmptyText == [kind |-> "text", parts |-> <<>>]

\* The fragments of the texts handed to the colour resolver:
\* 红色, 洋红色, 浅灰色, 粉色, "Light Gray", "Purple", "99", "300", "0", "-"
\* and a blank.
ColorParts ==
    { <<"hong", "se">>, <<"yang", "hong", "se">>, <<"qian", "hui1", "se">>,
      <<"fen", "se">>,
      <<"L", "i", "g", "h", "t", " ", "G", "r", "a", "y">>,
      <<"P", "u", "r", "p", "l", "e">>,
      <<"9", "9">>, <<"3", "0", "0">>, <<"0">>, <<"-">>, <<" ">> }

\* A text for extract_color_from_command, and the argument None.
EmptyColor == [kind |-> "color", parts |-> <<>>]
AbsentColor == [kind |-> "absent"]

\* The string an input stands for.
TextOf(in) ==
    CASE in.kind = "command" -> Concat(in.words) \o PointList(in.points)
      [] in.kind = "absent" -> None
      [] OTHER -> Concat(in.parts)

Builders ==
    { "_parse_draw_line", "_parse_draw_circle", "_parse_draw_arc",
      "_parse_draw_rectangle", "_parse_draw_polyline", "_parse_draw_text",
      "_parse_draw_hatch", "_parse_save", "_parse_create_layer" }

\* The builder method of each name.
Builder(name, cmd) ==
    CASE name = "_parse_draw_line" -> ParseDrawLine(cmd)
      [] name = "_parse_draw_circle" -> ParseDrawCircle(cmd)
      [] name = "_parse_draw_arc" -> ParseDrawArc(cmd)
      [] name = "_parse_draw_rectangle" -> ParseDrawRectangle(cmd)
      [] name = "_parse_draw_polyline" -> ParseDrawPolyline(cmd)
      [] name = "_parse_draw_text" -> ParseDrawText(cmd)
      [] name = "_parse_draw_hatch" -> ParseDrawHatch(cmd)
      [] name = "_parse_save" -> ParseSave(cmd)
      [] name = "_parse_create_layer" -> ParseCreateLayer(cmd)

----------------------------------------------------------------------------
(* cad_controller.py: the CADController and the drawing it drives.  The    *)
(* CAD application is reached through COM: a call of a COM member named in *)
(* the set faults raises, every other call does what the member is for.    *)
(* An entity of the drawing is held by its kind, its layer and whether it  *)
(* is closed; geometry, colour and line weight are left out.               *)

\* The values of self.app and self.doc once they are set.
App == <<"Application">>
Doc == <<"Document">>

\* __init__
InitController == [app |-> None, doc |-> None, entities |-> <<>>]

\* A new drawing: the layer 0, current, and nothing else.
BlankDocument ==
    [ layers |-> << <<"0">> >>,
      active |-> <<"0">>,
      entities |-> <<>>,
      blocks |-> <<>>,
      path |-> None ]

\* A call that ended: the controller, the drawing, and what was returned or
\* raised.
Out(ctl, doc, ret) == [self |-> ctl, doc |-> doc, ret |-> ret]

\* is_running: reading the attribute app of an instance that has none
\* raises.
is_running(ctl) ==
    IF HasAttr(ctl, "app")
    THEN Return(ctl.app # None /\ ctl.doc # None)
    ELSE Raise("AttributeError")

\* The guard "if not self.is_running(): return failure" before the body of
\* an operation; it stands outside the try block.
WhenRunning(ctl, doc, failure, body) ==
    IF is_running(ctl).kind = "raised" THEN Out(ctl, doc, is_running(ctl))
    ELSE IF ~is_running(ctl).value THEN Out(ctl, doc, Return(failure))
    ELSE body

\* The keyword argument k was passed (an argument left out is None).
Given(a, k) == k \in DOMAIN a

\* "if layer:" : a layer name was passed and it is not empty.
Wanted(a, k) == Given(a, k) /\ a[k] # <<>>

\* lines 47-51 of start_cad: an instance already held is forgotten.
Forgotten(ctl) ==
    IF ctl.app # None THEN [ctl EXCEPT !.app = None, !.doc = None] ELSE ctl

\* lines 146-155: the document must not be None and its Name must read.
Validated(ctl, doc, faults) ==
    Out(ctl, doc, Return(ctl.doc # None /\ "Name" \notin faults))

\* What ActiveDocument gives: a document, or None with "NoDocument".
ActiveDocument(faults) == IF "NoDocument" \in faults THEN None ELSE Doc

\* lines 107-141: a new instance is started and its active document taken.
Launched(ctl, doc, faults) ==
    IF "Dispatch" \in faults THEN Out(ctl, doc, Return(FALSE))
    ELSE IF "Visible" \in faults \/ "ActiveDocument" \in faults
    THEN Out([ctl EXCEPT !.app = App], doc, Return(FALSE))
    ELSE Validated([ctl EXCEPT !.app = App, !.doc = ActiveDocument(faults)],
                   BlankDocument, faults)

\* lines 90-105: the documents are closed without saving and a new one is
\* added; when that fails too, a new instance is started.
Reopened(ctl, doc, faults) ==
    IF "Documents.Count" \in faults \/ "Documents.Add" \in faults
    THEN Launched(ctl, doc, faults)
    ELSE Validated([ctl EXCEPT !.doc = Doc], BlankDocument, faults)

\* lines 83-89: a new document when the instance has none (empty), its
\* active document otherwise.
Opened(ctl, doc, faults, empty) ==
    IF "Documents.Count" \in faults THEN Reopened(ctl, doc, faults)
    ELSE IF empty
    THEN IF "Documents.Add" \in faults THEN Reopened(ctl, doc, faults)
         ELSE Validated([ctl EXCEPT !.doc = Doc], BlankDocument, faults)
    ELSE IF "ActiveDocument" \in faults THEN Reopened(ctl, doc, faults)
         ELSE Validated([ctl EXCEPT !.doc = ActiveDocument(faults)], doc, faults)

\* lines 73-78: the running instance, or a new one when there is none.
Connected(ctl, doc, faults, empty) ==
    IF "GetActiveObject" \in faults THEN Launched(ctl, doc, faults)
    ELSE Opened([ctl EXCEPT !.app = App], doc, faults, empty)

\* start_cad: every exception ends in "return False" (lines 160-162),
\* also the AttributeError of reading an attribute app that was deleted.
start_cad(ctl, doc, faults, empty) ==
    IF "CoInitialize" \in faults \/ ~HasAttr(ctl, "app")
    THEN Out(ctl, doc, Return(FALSE))
    ELSE Connected(Forgotten(ctl), doc, faults, empty)

\* close: "del self.app" removes the attribute; the bare except swallows
\* whatever is raised, and self.doc is left as it is.
close(ctl, doc) ==
    Out(IF HasAttr(ctl, "app") /\ ctl.app # None
        THEN [k \in DOMAIN ctl \ {"app"} |-> ctl[k]]
        ELSE ctl,
        doc, Return(None))

\* The drawing has a layer of that name.
HasLayer(doc, layer_name) ==
    \E i \in 1..Len(doc.layers) : doc.layers[i] = layer_name

\* lines 754 and 772: self.doc.ActiveLayer = the layer
LayerActivated(ctl, doc, layer_name, faults) ==
    IF "ActiveLayer" \in faults THEN Out(ctl, doc, Return(FALSE))
    ELSE Out(ctl, [doc EXCEPT !.active = layer_name], Return(TRUE))

\* line 758: self.doc.Layers.Add(layer_name), and what follows
LayerAdded(ctl, doc, layer_name, faults) ==
    IF "Layers.Add" \in faults THEN Out(ctl, doc, Return(FALSE))
    ELSE LayerActivated(ctl, [doc EXCEPT !.layers = Append(@, layer_name)],
                        layer_name, faults)

\* A faulty variant of create_layer that does not look for the layer first.
create_layer_unchecked(ctl, doc, a, faults) ==
    WhenRunning(ctl, doc, FALSE,
        IF "Layers" \in faults THEN Out(ctl, doc, Return(FALSE))
        ELSE LayerAdded(ctl, doc, a.layer_name, faults))

\* create_layer
create_layer(ctl, doc, a, faults) ==
    WhenRunning(ctl, doc, FALSE,
        IF "Layers" \in faults THEN Out(ctl, doc, Return(FALSE))
        ELSE IF HasLayer(doc, a.layer_name)
        THEN LayerActivated(ctl, doc, a.layer_name, faults)
        ELSE LayerAdded(ctl, doc, a.layer_name, faults))

\* A step inside a try block: the drawing so far, and whether nothing has
\* been raised yet.
Step(doc, ok) == [doc |-> doc, ok |-> ok]

\* ModelSpace.Add...: a new entity, on the current layer.
Added(doc, kind) ==
    Step([doc EXCEPT !.entities =
            Append(@, [kind |-> kind, layer |-> doc.active, closed |-> FALSE])],
         TRUE)

\* "entity.member = value", done when wanted.
Set(r, wanted, member, faults) ==
    IF r.ok /\ wanted /\ member \in faults THEN Step(r.doc, FALSE) ELSE r

\* "entity.Layer = layer" on the entity added last; a layer the drawing
\* does not have cannot be set.
LayerSet(doc, layer, faults) ==
    IF "Layer" \in faults \/ ~HasLayer(doc, layer) THEN Step(doc, FALSE)
    ELSE Step([doc EXCEPT !.entities[Len(doc.entities)].layer = layer], TRUE)

\* "if layer: self.create_layer(layer); entity.Layer = layer"
OnLayer(ctl, r, a, faults) ==
    IF ~r.ok \/ ~Wanted(a, "layer") THEN r
    ELSE LayerSet(create_layer(ctl, r.doc, [layer_name |-> a.layer], faults).doc,
                  a.layer, faults)

\* The layer, the colour and the line weight of the new entity, as far as
\* they were passed.
Styled(ctl, r, a, faults) ==
    Set(Set(OnLayer(ctl, r, a, faults), Given(a, "color"), "Color", faults),
        Given(a, "lineweight"), "LineWeight", faults)

\* The end of a drawing operation: the entity added last, or None from the
\* except clause.  refresh_view catches what Regen raises.
Drawn(ctl, r) ==
    Out(ctl, r.doc,
        Return(IF r.ok THEN <<"Entity", Len(r.doc.entities)>> ELSE None))

\* The body of draw_line, draw_circle and draw_arc, which differ in the
\* member that adds the entity.
Create(ctl, doc, kind, member, a, faults) ==
    IF member \in faults THEN Out(ctl, doc, Return(None))
    ELSE Drawn(ctl, Styled(ctl, Added(doc, kind), a, faults))

draw_line(ctl, doc, a, faults) ==
    WhenRunning(ctl, doc, None, Create(ctl, doc, "line", "AddLine", a, faults))

draw_circle(ctl, doc, a, faults) ==
    WhenRunning(ctl, doc, None, Create(ctl, doc, "circle", "AddCircle", a, faults))

draw_arc(ctl, doc, a, faults) ==
    WhenRunning(ctl, doc, None, Create(ctl, doc, "arc", "AddArc", a, faults))

\* lines 394-395: "if closed and len(processed_points) > 2"
Closed(r, a, faults) ==
    IF ~(a.closed /\ Len(a.points) > 2) THEN r
    ELSE IF "Closed" \in faults THEN Step(r.doc, FALSE)
    ELSE Step([r.doc EXCEPT !.entities[Len(r.doc.entities)].closed = TRUE], TRUE)

draw_polyline(ctl, doc, a, faults) ==
    WhenRunning(ctl, doc, None,
        IF "AddPolyline" \in faults THEN Out(ctl, doc, Return(None))
        ELSE Drawn(ctl, Styled(ctl, Closed(Added(doc, "polyline"), a, faults),
                               a, faults)))

\* lines 438-447: the five points of the rectangle, closed, with the
\* layer, colour and line weight passed on.
RectangleArguments(a) ==
    [k \in (DOMAIN a \ {"corner1", "corner2"}) \cup {"points", "closed"} |->
        CASE k = "points" ->
               << a.corner1,
                  <<a.corner2[1], a.corner1[2], a.corner1[3]>>,
                  <<a.corner2[1], a.corner2[2], a.corner1[3]>>,
                  <<a.corner1[1], a.corner2[2], a.corner1[3]>>,
                  a.corner1 >>
          [] k = "closed" -> TRUE
          [] OTHER -> a[k]]

draw_rectangle(ctl, doc, a, faults) ==
    WhenRunning(ctl, doc, None,
        draw_polyline(ctl, doc, RectangleArguments(a), faults))

draw_text(ctl, doc, a, faults) ==
    WhenRunning(ctl, doc, None,
        IF "AddText" \in faults THEN Out(ctl, doc, Return(None))
        ELSE Drawn(ctl, Styled(ctl, Set(Added(doc, "text"), a.rotation # 0,
                                        "Rotation", faults),
                               a, faults)))

\* line 518: draw_polyline(points, closed=True, layer=layer)
BoundaryArguments(a) ==
    [k \in {"points", "closed"} \cup (DOMAIN a \cap {"layer"}) |->
        IF k = "closed" THEN TRUE ELSE a[k]]

\* lines 519-552: the hatch over the boundary polyline.
Hatched(ctl, boundary, a, faults) ==
    IF boundary.ret.value = None \/ "AddHatch" \in faults
    THEN Out(ctl, boundary.doc, Return(None))
    ELSE Drawn(ctl,
           Set(Set(OnLayer(ctl,
                           Set(Set(Added(boundary.doc, "hatch"),
                                   TRUE, "AppendOuterLoop", faults),
                               TRUE, "PatternScale", faults),
                           a, faults),
                   Given(a, "color"), "Color", faults),
               TRUE, "Evaluate", faults))

draw_hatch(ctl, doc, a, faults) ==
    WhenRunning(ctl, doc, None,
        IF Len(a.points) < 3 THEN Out(ctl, doc, Return(None))
        ELSE Hatched(ctl, draw_polyline(ctl, doc, BoundaryArguments(a), faults),
                     a, faults))

zoom_extents(ctl, doc, a, faults) ==
    WhenRunning(ctl, doc, FALSE,
        Out(ctl, doc, Return("ZoomExtents" \notin faults)))

save_drawing(ctl, doc, a, faults) ==
    WhenRunning(ctl, doc, FALSE,
        IF "makedirs" \in faults \/ "SaveAs" \in faults
        THEN Out(ctl, doc, Return(FALSE))
        ELSE Out(ctl, [doc EXCEPT !.path = a.file_path], Return(TRUE)))

\* create_block, without entities to copy into the block.
create_block(ctl, doc, a, faults) ==
    WhenRunning(ctl, doc, None,
        IF "Blocks.Add" \in faults THEN Out(ctl, doc, Return(None))
        ELSE Out(ctl, [doc EXCEPT !.blocks = Append(@, a.block_name)],
                 Return(<<"Block", Len(doc.blocks) + 1>>)))

\* insert_block: a reference to a block the drawing has.
insert_block(ctl, doc, a, faults) ==
    WhenRunning(ctl, doc, None,
        IF "InsertBlock" \in faults
           \/ ~\E i \in 1..Len(doc.blocks) : doc.blocks[i] = a.block_name
        THEN Out(ctl, doc, Return(None))
        ELSE Drawn(ctl, OnLayer(ctl, Added(doc, "block_reference"), a, faults)))

add_dimension(ctl, doc, a, faults) ==
    WhenRunning(ctl, doc, None,
        IF "AddDimAligned" \in faults THEN Out(ctl, doc, Return(None))
        ELSE Drawn(ctl, Set(OnLayer(ctl,
                                    Set(Added(doc, "dimension"),
                                        TRUE, "TextHeight", faults),
                                    a, faults),
                            Given(a, "color"), "Color", faults)))

\* The operations that send a command line to the application.
draw_circle_command(ctl, doc, a, faults) ==
    WhenRunning(ctl, doc, FALSE,
        IF "SendCommand" \in faults THEN Out(ctl, doc, Return(FALSE))
        ELSE Out(ctl, Added(doc, "circle").doc, Return(TRUE)))

\* end_command before and after swallows what it raises.
draw_line_command(ctl, doc, a, faults) ==
    WhenRunning(ctl, doc, FALSE,
        IF "SendCommand" \in faults THEN Out(ctl, doc, Return(FALSE))
        ELSE Out(ctl, Added(doc, "line").doc, Return(TRUE)))

\* _QSAVE waits for the user: the drawing is left as it is.
save_drawing_command(ctl, doc, a, faults) ==
    WhenRunning(ctl, doc, FALSE,
        Out(ctl, doc, Return("makedirs" \notin faults /\ "SendCommand" \notin faults)))

save_drawing_script(ctl, doc, a, faults) ==
    WhenRunning(ctl, doc, FALSE,
        IF "makedirs" \in faults \/ "open" \in faults \/ "SendCommand" \in faults
        THEN Out(ctl, doc, Return(FALSE))
        ELSE Out(ctl, [doc EXCEPT !.path = a.file_path], Return(TRUE)))

\* The operations that return None when they fail, and those that return
\* False.
DrawingOperations ==
    { "draw_line", "draw_circle", "draw_arc", "draw_polyline", "draw_rectangle",
      "draw_text", "draw_hatch", "create_block", "insert_block", "add_dimension" }

StatusOperations ==
    { "create_layer", "zoom_extents", "save_drawing", "draw_circle_command",
      "draw_line_command", "save_drawing_command", "save_drawing_script" }

Operations == DrawingOperations \cup StatusOperations

\* A call of the operation of that name.
Operation(name, ctl, doc, a, faults) ==
    CASE name = "draw_line" -> draw_line(ctl, doc, a, faults)
      [] name = "draw_circle" -> draw_circle(ctl, doc, a, faults)
      [] name = "draw_arc" -> draw_arc(ctl, doc, a, faults)
      [] name = "draw_polyline" -> draw_polyline(ctl, doc, a, faults)
      [] name = "draw_rectangle" -> draw_rectangle(ctl, doc, a, faults)
      [] name = "draw_text" -> draw_text(ctl, doc, a, faults)
      [] name = "draw_hatch" -> draw_hatch(ctl, doc, a, faults)
      [] name = "create_block" -> create_block(ctl, doc, a, faults)
      [] name = "insert_block" -> insert_block(ctl, doc, a, faults)
      [] name = "add_dimension" -> add_dimension(ctl, doc, a, faults)
      [] name = "create_layer" -> create_layer(ctl, doc, a, faults)
      [] name = "zoom_extents" -> zoom_extents(ctl, doc, a, faults)
      [] name = "save_drawing" -> save_drawing(ctl, doc, a, faults)
      [] name = "draw_circle_command" -> draw_circle_command(ctl, doc, a, faults)
      [] name = "draw_line_command" -> draw_line_command(ctl, doc, a, faults)
      [] name = "save_drawing_command" -> save_drawing_command(ctl, doc, a, faults)
      [] name = "save_drawing_script" -> save_drawing_script(ctl, doc, a, faults)

\* The COM members (and system calls) an operation goes through.
LayerCalls == {"Layers", "Layers.Add", "ActiveLayer"}
StyleCalls == LayerCalls \cup {"Layer", "Color", "LineWeight"}

Calls(name) ==
    CASE name = "draw_line" -> {"AddLine"} \cup StyleCalls
      [] name = "draw_circle" -> {"AddCircle"} \cup StyleCalls
      [] name = "draw_arc" -> {"AddArc"} \cup StyleCalls
      [] name \in {"draw_polyline", "draw_rectangle"} ->
             {"AddPolyline", "Closed"} \cup StyleCalls
      [] name = "draw_text" -> {"AddText", "Rotation", "Layer", "Color"} \cup LayerCalls
      [] name = "draw_hatch" ->
             {"AddPolyline", "Closed", "AddHatch", "AppendOuterLoop",
              "PatternScale", "Layer", "Color", "Evaluate"} \cup LayerCalls
      [] name = "create_block" -> {"Blocks.Add"}
      [] name = "insert_block" -> {"InsertBlock", "Layer"} \cup LayerCalls
      [] name = "add_dimension" ->
             {"AddDimAligned", "TextHeight", "Layer", "Color"} \cup LayerCalls
      [] name = "create_layer" -> LayerCalls
      [] name = "zoom_extents" -> {"ZoomExtents"}
      [] name = "save_drawing" -> {"makedirs", "SaveAs"}
      [] name \in {"draw_circle_command", "draw_line_command"} -> {"SendCommand"}
      [] name = "save_drawing_command" -> {"makedirs", "SendCommand"}
      [] name = "save_drawing_script" -> {"makedirs", "open", "SendCommand"}

StartCalls ==
    { "CoInitialize", "GetActiveObject", "Documents.Count", "Documents.Add",
      "ActiveDocument", "NoDocument", "Dispatch", "Visible", "Name" }

----------------------------------------------------------------------------
(* The state machine: the instance after construction; a caller prepares   *)
(* an input and calls methods of the instance with it.                     *)

NoValue == "none"

Init ==
    /\ self = InitSelf
    /\ input = EmptyCommand
    /\ call = "init"
    /\ command = <<>>
    /\ outcome = "none"
    /\ result = NoValue
    /\ exc = NoValue
    /\ served = FALSE
    /\ controller = InitController
    /\ document = BlankDocument

NoCall ==
    UNCHANGED <<self, call, command, outcome, result, exc, served,
                controller, document>>

\* The caller adds a word of the set ws to the command.
TypeWordFrom(ws) ==
    \E w \in ws :
        /\ input.kind = "command" /\ outcome = "none"
        /\ input.points = 0 /\ Len(input.words) < MaxWords
        /\ input' = [input EXCEPT !.words = Append(@, w)]
        /\ NoCall

TypeWord == TypeWordFrom(Words)

\* The caller adds a coordinate to the command.
TypePoint ==
    /\ input.kind = "command" /\ outcome = "none"
    /\ input.points < MaxPoints
    /\ input' = [input EXCEPT !.points = @ + 1]
    /\ NoCall

\* The caller adds a fragment of the set ps to the text for a builder.
TypePartFrom(ps) ==
    \E p \in ps :
        /\ outcome = "none"
        /\ \/ input.kind = "text" /\ Len(input.parts) < MaxParts
           \/ input = EmptyCommand /\ MaxParts > 0
        /\ input' = [kind |-> "text",
                     parts |-> IF input.kind = "text" THEN Append(input.parts, p)
                               ELSE <<p>>]
        /\ NoCall

TypePart == TypePartFrom(Parts)

\* The caller adds a fragment to the text for the colour resolver.
TypeColorPart ==
    \E p \in ColorParts :
        /\ outcome = "none"
        /\ \/ input.kind = "color" /\ Len(input.parts) < MaxColorParts
           \/ input = EmptyCommand /\ MaxColorParts > 0
        /\ input' = [kind |-> "color",
                     parts |-> IF input.kind = "color" THEN Append(input.parts, p)
                               ELSE <<p>>]
        /\ NoCall

\* The caller starts over with a new input; the instance lives on.
NewInput ==
    /\ outcome # "none"
    /\ input' \in {EmptyCommand, EmptyText, EmptyColor, AbsentColor}
    /\ call' = "init" /\ command' = <<>>
    /\ outcome' = "none" /\ result' = NoValue /\ exc' = NoValue
    /\ served' = TRUE
    /\ UNCHANGED <<self, controller, document>>

\* A faulty variant of Ends: the call leaves an attribute domain_keywords
\* behind on the instance, as a lazily initialised table would.
EndsCaching(m, text, r) ==
    /\ call' = m
    /\ command' = text
    /\ outcome' = r.kind
    /\ result' = IF r.kind = "returned" THEN r.value ELSE NoValue
    /\ exc' = IF r.kind = "raised" THEN r.exc ELSE NoValue
    /\ served' = (served \/ outcome # "none")
    /\ self' = [k \in DOMAIN self \cup {"domain_keywords"} |->
                  IF k = "domain_keywords" THEN <<>> ELSE self[k]]
    /\ UNCHANGED <<input, controller, document>>

\* The effect of a call of method m with argument text that ended with the
\* outcome record r.
Ends(m, text, r) ==
    /\ call' = m
    /\ command' = text
    /\ outcome' = r.kind
    /\ result' = IF r.kind = "returned" THEN r.value ELSE NoValue
    /\ exc' = IF r.kind = "raised" THEN r.exc ELSE NoValue
    /\ served' = (served \/ outcome # "none")
    /\ UNCHANGED <<self, input, controller, document>>

\* process_command(text)
ProcessCommand ==
    /\ input.kind = "command"
    /\ Ends("process_command", TextOf(input), ParseCommand(self, TextOf(input)))

\* _identify_command_type(text), on a normalized command
CallIdentifyCommandType ==
    /\ input.kind = "command"
    /\ Ends("_identify_command_type", Normalize(TextOf(input)),
            IdentifyCommandType(self, Normalize(TextOf(input))))

\* A direct call of one of the builders named in names.
CallBuilderIn(names) ==
    \E name \in names :
        /\ input.kind = "text"
        /\ Ends(name, TextOf(input), Return(Builder(name, TextOf(input))))

CallBuilder == CallBuilderIn(Builders)

\* extract_color_from_command(text), or extract_color_from_command(None)
CallExtractColor ==
    /\ input.kind \in {"color", "absent"}
    /\ Ends("extract_color_from_command", TextOf(input),
            Return(ExtractColorFromCommand(self, TextOf(input))))

Next ==
    \/ TypeWord
    \/ TypePoint
    \/ TypePart
    \/ TypeColorPart
    \/ NewInput
    \/ ProcessCommand
    \/ CallIdentifyCommandType
    \/ CallBuilder
    \/ CallExtractColor

Spec == Init /\ [][Next]_vars

\* The colour resolver alone.
NextColor == TypeColorPart \/ CallExtractColor \/ NewInput
SpecColor == Init /\ [][NextColor]_vars

\* _parse_draw_line alone, on texts about lines.
TypeLinePart == TypePartFrom(LineParts)
CallParseDrawLine == CallBuilderIn({"_parse_draw_line"})
NextLine == TypeLinePart \/ CallParseDrawLine \/ NewInput
SpecLine == Init /\ [][NextLine]_vars

\* _parse_draw_circle alone, on texts about circles.
TypeCirclePart == TypePartFrom(CircleParts)
CallParseDrawCircle == CallBuilderIn({"_parse_draw_circle"})
NextCircle == TypeCirclePart \/ CallParseDrawCircle \/ NewInput
SpecCircle == Init /\ [][NextCircle]_vars

\* _parse_draw_rectangle alone, on texts about rectangles.
TypeRectanglePart == TypePartFrom(RectangleParts)
CallParseDrawRectangle == CallBuilderIn({"_parse_draw_rectangle"})
NextRectangle == TypeRectanglePart \/ CallParseDrawRectangle \/ NewInput
SpecRectangle == Init /\ [][NextRectangle]_vars

\* _parse_draw_polyline alone, on texts about polylines.
TypePolylinePart == TypePartFrom(PolylineParts)
CallParseDrawPolyline == CallBuilderIn({"_parse_draw_polyline"})
NextPolyline == TypePolylinePart \/ CallParseDrawPolyline \/ NewInput
SpecPolyline == Init /\ [][NextPolyline]_vars

\* _parse_draw_hatch alone, on texts about hatches.
TypeHatchPart == TypePartFrom(HatchParts)
CallParseDrawHatch == CallBuilderIn({"_parse_draw_hatch"})
NextHatch == TypeHatchPart \/ CallParseDrawHatch \/ NewInput
SpecHatch == Init /\ [][NextHatch]_vars

\* _extract_coordinates(text)
CallExtractCoordinates ==
    /\ input.kind = "text"
    /\ Ends("_extract_coordinates", TextOf(input),
            Return(ExtractCoordinates(TextOf(input))))

\* _extract_coordinates and the builders, on texts of well-formed coordinates.
TypeCoordinatePart == TypePartFrom(CoordinateParts)
NextCoordinates ==
    TypeCoordinatePart \/ CallExtractCoordinates \/ CallBuilder \/ NewInput
SpecCoordinates == Init /\ [][NextCoordinates]_vars

\* The classifier and parse_command, on commands that name shapes without
\* an intent of their own.
TypeClassifierWord == TypeWordFrom(ClassifierWords)
NextClassifier ==
    TypeClassifierWord \/ CallIdentifyCommandType \/ ProcessCommand \/ NewInput
SpecClassifier == Init /\ [][NextClassifier]_vars

\* The arguments a caller passes to the operations of the controller: the
\* layer a new drawing comes with, and another one.
LayerNames == { <<"0">>, <<"A">> }

\* The arguments a alone, and with a layer and a colour.
Styles(a) ==
    { a,
      [k \in DOMAIN a \cup {"layer", "color"} |->
          CASE k = "layer" -> <<"A">> [] k = "color" -> 1 [] OTHER -> a[k]] }

Triangle == << <<0, 0, 0>>, <<100, 0, 0>>, <<100, 100, 0>> >>

Arguments(name) ==
    CASE name \in {"draw_line", "add_dimension"} ->
             Styles([start_point |-> <<0, 0, 0>>, end_point |-> <<100, 0, 0>>])
      [] name = "draw_circle" -> Styles([center |-> <<0, 0, 0>>, radius |-> 50])
      [] name = "draw_arc" ->
             Styles([center |-> <<0, 0, 0>>, radius |-> 50,
                     start_angle |-> 0, end_angle |-> 900])
      [] name = "draw_polyline" ->
             Styles([points |-> Triangle, closed |-> TRUE])
             \cup {[points |-> SubSeq(Triangle, 1, 2), closed |-> FALSE]}
      [] name = "draw_rectangle" ->
             Styles([corner1 |-> <<0, 0, 0>>, corner2 |-> <<100, 50, 0>>])
      [] name = "draw_text" ->
             Styles([position |-> <<0, 0, 0>>, text |-> <<"A">>, rotation |-> 0])
             \cup {[position |-> <<0, 0, 0>>, text |-> <<"A">>, rotation |-> 900]}
      [] name = "draw_hatch" ->
             Styles([points |-> Triangle])
             \cup {[points |-> SubSeq(Triangle, 1, 2)]}
      [] name = "create_block" ->
             {[block_name |-> <<"K">>, insertion_point |-> <<0, 0, 0>>]}
      [] name = "insert_block" ->
             Styles([block_name |-> <<"K">>, insertion_point |-> <<0, 0, 0>>])
      [] name = "create_layer" -> {[layer_name |-> n] : n \in LayerNames}
      [] name = "zoom_extents" -> {<<>>}
      [] name \in {"save_drawing", "save_drawing_command", "save_drawing_script"} ->
             {[file_path |-> <<"d", "/", "a", ".", "d", "w", "g">>]}
      [] name = "draw_circle_command" -> {[center |-> <<0, 0, 0>>, radius |-> 50]}
      [] name = "draw_line_command" ->
             {[start_point |-> <<0, 0, 0>>, end_point |-> <<100, 0, 0>>]}

\* The sets of at most MaxFaults members of the set calls that raise.
FaultSets(calls) == { f \in SUBSET calls : Cardinality(f) <= MaxFaults }

\* The effect of a call of method m of the controller with the arguments a
\* that ended as the record r says.
Controls(m, a, r) ==
    /\ call' = m
    /\ command' = a
    /\ outcome' = r.ret.kind
    /\ result' = IF r.ret.kind = "returned" THEN r.ret.value ELSE NoValue
    /\ exc' = IF r.ret.kind = "raised" THEN r.ret.exc ELSE NoValue
    /\ controller' = r.self
    /\ document' = r.doc
    /\ UNCHANGED <<self, input, served>>

\* start_cad(), which tries a second way when the first one raises: one
\* more member may raise.
CallStartCad ==
    \E faults \in FaultSets(StartCalls) \cup
                  { f \cup {c} : f \in FaultSets(StartCalls), c \in StartCalls },
       empty \in BOOLEAN :
        Controls("start_cad", <<>>, start_cad(controller, document, faults, empty))

\* is_running()
CallIsRunning ==
    Controls("is_running", <<>>, Out(controller, document, is_running(controller)))

\* close()
CallClose == Controls("close", <<>>, close(controller, document))

\* A call of one of the operations named in names; the drawing is kept to
\* most entities and MaxBlocks blocks.
CallOperationIn(names, most) ==
    \E name \in names :
        \E a \in Arguments(name), faults \in FaultSets(Calls(name)) :
            /\ Len(Operation(name, controller, document, a, faults).doc.entities)
                  <= most
            /\ Len(Operation(name, controller, document, a, faults).doc.blocks)
                  <= MaxBlocks
            /\ Controls(name, a, Operation(name, controller, document, a, faults))

\* Every operation, on a drawing of less than MaxEntities entities.
CallOperation == CallOperationIn(Operations, MaxEntities - 1)

\* The controller, from construction on.
NextController == CallStartCad \/ CallIsRunning \/ CallClose \/ CallOperation
SpecController == Init /\ [][NextController]_vars

\* The layers of the drawing: create_layer, and draw_line with a layer.
CallLayerOperation == CallOperationIn({"create_layer", "draw_line"}, MaxEntities)
NextLayers == CallStartCad \/ CallClose \/ CallLayerOperation
SpecLayers == Init /\ [][NextLayers]_vars

\* Hatches and the polylines that bound them.
CallHatchOperation == CallOperationIn({"draw_polyline", "draw_hatch"}, MaxEntities)
NextHatching == CallStartCad \/ CallIsRunning \/ CallHatchOperation
SpecHatching == Init /\ [][NextHatching]_vars

\* Sequences of calls of every method, on a few inputs.
TypeFewWord == TypeWordFrom(FewWords)
TypeFewPart == TypePartFrom(FewParts)
NextCalls ==
    \/ TypeFewWord
    \/ TypePoint
    \/ TypeFewPart
    \/ TypeColorPart
    \/ NewInput
    \/ ProcessCommand
    \/ CallIdentifyCommandType
    \/ CallBuilder
    \/ CallExtractColor
SpecCalls == Init /\ [][NextCalls]_vars


----------------------------------------------------------------------------
(* The claims of the specification, stated over the calls of the model.    *)

\* The action phrases of the tag draw: 画, 绘制, 创建, 添加.
DrawActionPhrases ==
    { <<"hua">>, <<"hui", "zhi4">>, <<"chuang", "jian">>, <<"tian", "jia">> }

HasDrawAction(t) == \E p \in DrawActionPhrases : Contains(t, p)

\* The shape tags whose surface phrases occur in t.
ShapeTags(t) ==
    { InitShapeKeywords[i].v :
        i \in { j \in 1..Len(InitShapeKeywords) : Contains(t, InitShapeKeywords[j].k) } }

\* The intent the specification maps a shape tag to under a draw action.
SpecIntent(tag) ==
    CASE tag = "line" -> "draw_line"
      [] tag = "circle" -> "draw_circle"
      [] tag = "arc" -> "draw_arc"
      [] tag \in {"rectangle", "square"} -> "draw_rectangle"
      [] tag = "polyline" -> "draw_polyline"
      [] tag = "text" -> "draw_text"
      [] tag = "dimension" -> "add_dimension"
      [] OTHER -> ""

\* A draw action and a shape phrase whose pair maps to an intent co-occur.
PairDecides(t) == HasDrawAction(t) /\ \E tag \in ShapeTags(t) : SpecIntent(tag) # ""

\* 图层 together with one of 创建, 新建, 添加.
HasLayerCue(t) ==
    /\ Contains(t, <<"tu", "ceng">>)
    /\ \/ Contains(t, <<"chuang", "jian">>)
       \/ Contains(t, <<"xin", "jian">>)
       \/ Contains(t, <<"tian", "jia">>)

HasDimension(t) == Contains(t, <<"biao", "zhu">>)
HasSave(t) == Contains(t, <<"bao", "cun">>)

\* The texts the classification rules of the specification make create_layer
\* and save.
LayerClassified(t) == ~PairDecides(t) /\ HasLayerCue(t)
SaveClassified(t) ==
    ~PairDecides(t) /\ ~HasLayerCue(t) /\ ~HasDimension(t) /\ HasSave(t)

\* The variants of a command descriptor.
DescriptorTypes ==
    { "draw_line", "draw_circle", "draw_arc", "draw_rectangle", "draw_polyline",
      "draw_text", "draw_hatch", "create_layer", "save", "unknown", "error" }

Interpreted == call = "process_command"
Classified == call = "_identify_command_type"

\* C1: for every input string, interpret (process_command) completes and
\* returns a descriptor; it never raises.
C1_InterpretNeverRaises == Interpreted => outcome = "returned"

\* C2: for every input, interpret returns a descriptor whose type is one of
\* the eleven fixed variants.
C2_FixedVariants ==
    Interpreted => (outcome = "returned" /\ result.type \in DescriptorTypes)

\* The file path the specification gives a save command: the quoted text
\* after a path cue, else the default directory joined with the default name.
SpecFilePath(t) ==
    OrDefault(QuotedAfterCue(t, t, PathCues),
              OsPathJoin(Config.directory, Config.default_filename))

\* C3: a text classified as save yields a descriptor of type save whose
\* file_path is the quoted text after a path cue, or else the default path.
C3_SaveDescriptor ==
    (Interpreted /\ SaveClassified(Normalize(command)))
        => /\ outcome = "returned"
           /\ result.type = "save"
           /\ result.file_path = SpecFilePath(Normalize(command))

\* C4: a text classified as create_layer yields a descriptor of type
\* create_layer that carries a layer_name and a color.
C4_CreateLayerDescriptor ==
    (Interpreted /\ LayerClassified(Normalize(command)))
        => /\ outcome = "returned"
           /\ result.type = "create_layer"
           /\ {"layer_name", "color"} \subseteq DOMAIN result

\* C5: a command with a draw action word, 填充 and at least three
\* coordinates yields a draw_hatch descriptor with all the coordinates in
\* order, and the pattern SOLID and the scale 1.0 when the text names
\* neither.
C5_HatchDescriptor ==
    ( /\ Interpreted
      /\ HasDrawAction(Normalize(command))
      /\ Contains(Normalize(command), <<"tian2", "chong">>)
      /\ Len(ExtractCoordinates(Normalize(command))) >= 3 )
        => /\ outcome = "returned"
           /\ result.type = "draw_hatch"
           /\ result.points = ExtractCoordinates(Normalize(command))
           /\ (~NamedNumber(Normalize(command), ScaleCues, FALSE).ok
                  => result.scale = 10)
           /\ ((\A i \in 1..Len(command) :
                    CueAt(Normalize(command), i, PatternCues, 1) = 0)
                  => result.pattern_name = <<"S", "O", "L", "I", "D">>)

\* C6: a normalized text with a draw action phrase and a polyline phrase
\* (多段线 or 折线) is classified as draw_polyline.
C6_PolylineClassified ==
    ( /\ Classified
      /\ HasDrawAction(command)
      /\ (Contains(command, <<"duo", "duan", "xian">>)
            \/ Contains(command, <<"zhe", "xian">>)) )
        => (outcome = "returned" /\ result = "draw_polyline")

\* C7: a normalized text with a draw action phrase and an arc phrase
\* (弧 or 圆弧) is classified as draw_arc.
C7_ArcClassified ==
    ( /\ Classified
      /\ HasDrawAction(command)
      /\ (Contains(command, <<"hu">>) \/ Contains(command, <<"yuan", "hu">>)) )
        => (outcome = "returned" /\ result = "draw_arc")

\* The intents of the shape tags whose phrases occur in t.
OccurringIntents(t) == { SpecIntent(tag) : tag \in ShapeTags(t) }

\* C8: a normalized text with a draw action phrase in which the phrases of
\* exactly one shape tag among line, circle, arc, rectangle/square, text and
\* dimension occur, and of no other shape tag, is classified as the intent of
\* that tag.
C8_SingleTagClassified ==
    ( /\ Classified
      /\ HasDrawAction(command)
      /\ Cardinality(OccurringIntents(command)) = 1
      /\ OccurringIntents(command) \subseteq
            { "draw_line", "draw_circle", "draw_arc", "draw_rectangle",
              "draw_text", "add_dimension" } )
        => (outcome = "returned" /\ result \in OccurringIntents(command))

\* C9: a text with a draw-action and shape pair that maps to an intent and
\* with 保存 is classified by the pair, never as save.
C9_PairBeforeSave ==
    (Classified /\ PairDecides(command) /\ HasSave(command))
        => /\ outcome = "returned"
           /\ result \in OccurringIntents(command) \ {""}
           /\ result # "save"

\* C10: when no draw-action and shape pair decides, the special cases apply
\* in the order create_layer, add_dimension, save: 图层 with a create cue is
\* create_layer even with 标注 or 保存, and 标注 with 保存 is add_dimension.
C10_SpecialCaseOrder ==
    (Classified /\ ~PairDecides(command))
        => /\ outcome = "returned"
           /\ (HasLayerCue(command) => result = "create_layer")
           /\ (~HasLayerCue(command) /\ HasDimension(command))
                 => result = "add_dimension"
           /\ (~HasLayerCue(command) /\ ~HasDimension(command) /\ HasSave(command))
                 => result = "save"

\* A classification rule of the specification matches t: a draw-action and
\* shape pair, or one of the special cases create_layer, add_dimension, save.
RuleMatches(t) == PairDecides(t) \/ HasLayerCue(t) \/ HasDimension(t) \/ HasSave(t)

\* C11: interpret returns a descriptor, and one of type unknown only when
\* the text matched no classification rule; a text that matches a rule never
\* yields unknown.
C11_UnknownOnlyWithoutRule ==
    Interpreted
        => /\ outcome = "returned"
           /\ (result.type = "unknown" => ~RuleMatches(Normalize(command)))

\* C12: on a text that matches no classification rule interpret returns an
\* unknown descriptor whose original_command is the text that was passed in.
C12_UnknownCarriesOriginal ==
    (Interpreted /\ ~RuleMatches(Normalize(command)))
        => /\ outcome = "returned"
           /\ result.type = "unknown"
           /\ result.original_command = command

\* The builders parse_command dispatches to for the intents that need no
\* minimum of data: draw_line, draw_circle, draw_arc, draw_rectangle,
\* draw_text and save (lines 171-182, 193-194).
NoMinimumBuilders ==
    { "_parse_draw_line", "_parse_draw_circle", "_parse_draw_arc",
      "_parse_draw_rectangle", "_parse_draw_text", "_parse_save" }

\* C13: the builder of an intent that needs no minimum of data never returns
\* an error descriptor.
C13_NoErrorWithoutMinimum ==
    call \in NoMinimumBuilders => (outcome = "returned" /\ result.type # "error")

\* The fields of each variant of a command descriptor, under the names the
\* code gives them.
VariantFields(type) ==
    CASE type = "draw_line" -> {"start_point", "end_point"}
      [] type = "draw_circle" -> {"center", "radius"}
      [] type = "draw_arc" -> {"center", "radius", "start_angle", "end_angle"}
      [] type = "draw_rectangle" -> {"corner1", "corner2"}
      [] type = "draw_polyline" -> {"points", "closed"}
      [] type = "draw_text" -> {"position", "text", "height", "rotation"}
      [] type = "draw_hatch" -> {"points", "pattern_name", "scale"}
      [] type = "create_layer" -> {"layer_name", "color"}
      [] type = "save" -> {"file_path"}
      [] type = "unknown" -> {"original_command"}
      [] type = "error" -> {"message"}
      [] OTHER -> {}

\* What error and unknown descriptors may carry: diagnostic text and the
\* original command.
DiagnosticFields == {"type", "message", "error", "original_command"}

\* d has the shape of its type.
HasShape(d) ==
    /\ d.type \in DescriptorTypes
    /\ VariantFields(d.type) \subseteq DOMAIN d
    /\ (d.type \in {"error", "unknown"} => DOMAIN d \subseteq DiagnosticFields)

\* C14: every descriptor that interpret or a builder returns has the shape
\* of its type.
C14_DescriptorShape ==
    (call \in Builders \cup {"process_command"} /\ outcome = "returned")
        => HasShape(result)

\* What a call of method m with the argument text yields on an instance
\* that has served no call.
Fresh(m, text) ==
    CASE m = "process_command" -> ParseCommand(InitSelf, text)
      [] m = "_identify_command_type" -> IdentifyCommandType(InitSelf, text)
      [] m = "extract_color_from_command" ->
            Return(ExtractColorFromCommand(InitSelf, text))
      [] OTHER -> Return(Builder(m, text))

\* The last call ended as the outcome record r says.
EndedAs(r) ==
    /\ outcome = r.kind
    /\ (r.kind = "returned" => result = r.value)
    /\ (r.kind = "raised" => exc = r.exc)

ColorResolved == call = "extract_color_from_command"

\* The indices of the names of the colour table that occur in the text t,
\* letter case aside.
OccurringColors(t) ==
    { InitColorRgbMap[i].v :
        i \in { j \in 1..Len(InitColorRgbMap) :
                  Contains(Lower(t), Lower(InitColorRgbMap[j].k)) } }

\* The text t parses as an integer between 1 and 255.
IsColorNumber(t) == PyInt(t).ok /\ PyInt(t).value \in 1..255

\* What the specification lets the colour resolver return for the text t.
ResolvesTo(t, color) ==
    IF IsColorNumber(t) THEN color = PyInt(t).value
    ELSE IF OccurringColors(t) # {} THEN color \in OccurringColors(t)
    ELSE color = 7

\* C16: the colour resolver always returns an integer from 1 to 255: 7 for
\* an absent input, the integer itself when the input parses as an integer in
\* that range, else the index of a colour name that occurs in the text, and
\* 7 when nothing matches.
C16_ColorResolved ==
    ColorResolved
        => /\ outcome = "returned"
           /\ result \in 1..255
           /\ IF command = None THEN result = 7 ELSE ResolvesTo(command, result)

\* C16: the resolver was given a text that parses as a colour index, 99,
\* and returned it.
C16_Witness ==
    /\ ColorResolved /\ outcome = "returned"
    /\ command # None /\ IsColorNumber(command) /\ result = 99

\* C17: resolving a text that is exactly a name of the colour table returns
\* the index the table gives that name.
C17_NameResolvesToOwnIndex ==
    ColorResolved
        => \A i \in 1..Len(InitColorRgbMap) :
              command = InitColorRgbMap[i].k
                  => (outcome = "returned" /\ result = InitColorRgbMap[i].v)

\* C18: the draw_line builder returns a draw_line descriptor, never an
\* error: the first two extracted coordinates as start and end, or with fewer
\* than two the start (0,0,0), the end (100,100,0) and a note.
C18_LineFromFirstTwo ==
    call = "_parse_draw_line"
        => /\ outcome = "returned"
           /\ result.type = "draw_line"
           /\ IF Len(ExtractCoordinates(command)) >= 2
              THEN /\ result.start_point = ExtractCoordinates(command)[1]
                   /\ result.end_point = ExtractCoordinates(command)[2]
              ELSE /\ result.start_point = <<0, 0, 0>>
                   /\ result.end_point = <<1000, 1000, 0>>
                   /\ "note" \in DOMAIN result

\* C18: the builder was given three coordinates, the last unlike the second.
C18_Witness ==
    /\ call = "_parse_draw_line" /\ outcome = "returned"
    /\ Len(ExtractCoordinates(command)) >= 3
    /\ ExtractCoordinates(command)[3] # ExtractCoordinates(command)[2]
    /\ result.start_point # result.end_point

\* The number after the first radius label (半径, r, radius) of t that a
\* number follows.
LabelledRadius(t) == NamedNumber(Lower(t), RadiusCues, TRUE)

\* C19: the draw_circle builder takes the first extracted coordinate as the
\* center (the origin without one) and as the radius the labelled number,
\* else the first number of the text, else 50.0.
C19_CircleCenterAndRadius ==
    call = "_parse_draw_circle"
        => /\ outcome = "returned"
           /\ result.type = "draw_circle"
           /\ result.center = IF ExtractCoordinates(command) = <<>> THEN <<0, 0, 0>>
                              ELSE ExtractCoordinates(command)[1]
           /\ result.radius = IF LabelledRadius(command).ok
                              THEN LabelledRadius(command).value
                              ELSE IF ExtractNumbers(command) # <<>>
                              THEN ExtractNumbers(command)[1]
                              ELSE 500

\* C19: a labelled radius won over an earlier number of the text.
C19_Witness ==
    /\ call = "_parse_draw_circle" /\ outcome = "returned"
    /\ LabelledRadius(command).ok
    /\ ExtractNumbers(command)[1] # LabelledRadius(command).value
    /\ ExtractCoordinates(command) # <<>>
    /\ result.radius = LabelledRadius(command).value

\* The text t is one coordinate, which ends at position k, followed by one
\* unlabelled number.
TerseCircleAt(t, k) ==
    /\ Len(ExtractCoordinates(SubSeq(t, 1, k))) = 1
    /\ ExtractCoordinates(t) = ExtractCoordinates(SubSeq(t, 1, k))
    /\ Len(ExtractNumbers(SubSeq(t, 1, k))) = 2
    /\ Len(ExtractNumbers(SubSeq(t, k + 1, Len(t)))) = 1
    /\ Len(ExtractNumbers(t)) = 3
    /\ ~LabelledRadius(t).ok

\* C20: for a circle command of one coordinate followed by one unlabelled
\* number, the coordinate is the center and the number the radius.
C20_TerseCircle ==
    call = "_parse_draw_circle"
        => \A k \in 1..Len(command) :
              TerseCircleAt(command, k)
                  => /\ outcome = "returned"
                     /\ result.center = ExtractCoordinates(command)[1]
                     /\ result.radius = ExtractNumbers(SubSeq(command, k + 1, Len(command)))[1]

\* The width and the height a rectangle command labels, or 100.
LabelledWidth(t) == OrDefault(NamedNumber(Lower(t), WidthCues, TRUE), 1000)
LabelledHeight(t) == OrDefault(NamedNumber(Lower(t), HeightCues, TRUE), 1000)

\* The corner the specification derives from corner1, a width and a height.
CornerFrom(corner1, width, height) ==
    <<corner1[1] + width, corner1[2] + height, corner1[3]>>

\* C21: the draw_rectangle builder takes the first two coordinates as the
\* corners when there are two; otherwise corner1 is the one coordinate (the
\* origin without one) and corner2 is corner1 + (width, height, 0), from the
\* labels 宽度/width and 高度/height, 100 each by default.
C21_RectangleCorners ==
    call = "_parse_draw_rectangle"
        => /\ outcome = "returned"
           /\ result.type = "draw_rectangle"
           /\ IF Len(ExtractCoordinates(command)) >= 2
              THEN /\ result.corner1 = ExtractCoordinates(command)[1]
                   /\ result.corner2 = ExtractCoordinates(command)[2]
              ELSE /\ result.corner1 = IF ExtractCoordinates(command) = <<>>
                                       THEN <<0, 0, 0>>
                                       ELSE ExtractCoordinates(command)[1]
                   /\ result.corner2 = CornerFrom(result.corner1,
                                                  LabelledWidth(command),
                                                  LabelledHeight(command))

\* C21: one coordinate away from the origin and a labelled width.
C21_Witness ==
    /\ call = "_parse_draw_rectangle" /\ outcome = "returned"
    /\ Len(ExtractCoordinates(command)) = 1
    /\ result.corner1 # <<0, 0, 0>>
    /\ NamedNumber(Lower(command), WidthCues, TRUE).ok
    /\ result.corner2[1] = result.corner1[1] + LabelledWidth(command)

\* The text says the polyline is closed: it contains 闭合 or 封闭.
SaysClosed(t) == Contains(t, <<"bi4", "he">>) \/ Contains(t, <<"feng", "bi4">>)

\* C22: the draw_polyline builder returns the error 绘制多段线需要至少两个坐标点
\* exactly when fewer than two coordinates are extracted; otherwise a
\* draw_polyline with all the coordinates in order, closed exactly when the
\* text contains 闭合 or 封闭.
C22_PolylineOrError ==
    call = "_parse_draw_polyline"
        => /\ outcome = "returned"
           /\ IF Len(ExtractCoordinates(command)) < 2
              THEN result = [type |-> "error", message |-> MsgPolylineNeedsPoints]
              ELSE /\ result.type = "draw_polyline"
                   /\ result.points = ExtractCoordinates(command)
                   /\ result.closed = SaysClosed(command)

\* C22: a closed polyline of two coordinates.
C22_Witness ==
    /\ call = "_parse_draw_polyline" /\ outcome = "returned"
    /\ Len(ExtractCoordinates(command)) = 2
    /\ result.type = "draw_polyline" /\ result.closed

\* C23: the draw_hatch builder returns an error whose message contains
\* 3个点 exactly when fewer than three coordinates are extracted, whatever
\* pattern or scale the text gives; with three or more a draw_hatch with
\* every extracted coordinate.
C23_HatchOrError ==
    call = "_parse_draw_hatch"
        => /\ outcome = "returned"
           /\ IF Len(ExtractCoordinates(command)) < 3
              THEN /\ result.type = "error"
                   /\ Contains(result.message, <<"3", "ge", "dian3">>)
              ELSE /\ result.type = "draw_hatch"
                   /\ result.points = ExtractCoordinates(command)

\* C23: two coordinates and a pattern or a scale: an error all the same.
C23_Witness ==
    /\ call = "_parse_draw_hatch" /\ outcome = "returned"
    /\ Len(ExtractCoordinates(command)) = 2
    /\ (Contains(command, <<"tu", "an">>) \/ Contains(command, <<"bi", "li">>))
    /\ result.type = "error"

\* The coordinates written in the fragment with the text p.
PointsOfText(p) ==
    (CHOOSE e \in { CoordinateTexts[i] : i \in 1..Len(CoordinateTexts) } :
        e.text = p).points

\* The coordinates written in the fragments ps, from left to right.
RECURSIVE PointsOfTexts(_)
PointsOfTexts(ps) ==
    IF ps = <<>> THEN <<>> ELSE PointsOfText(Head(ps)) \o PointsOfTexts(Tail(ps))

\* The fields of a descriptor that hold one coordinate.
CoordinateFields ==
    {"start_point", "end_point", "center", "corner1", "corner2", "position"}

\* Every coordinate of the descriptor d has three elements.
ThreeElements(d) ==
    /\ \A f \in DOMAIN d \cap CoordinateFields : Len(d[f]) = 3
    /\ ("points" \in DOMAIN d => \A i \in 1..Len(d.points) : Len(d.points[i]) = 3)

\* C24: coordinate extraction returns the coordinates of a text of
\* well-formed coordinates from left to right, those of two numbers with
\* z = 0, and every coordinate of a descriptor a builder returns has three
\* elements.
C24_CoordinatesInOrder ==
    /\ call = "_extract_coordinates"
          => /\ outcome = "returned"
             /\ result = PointsOfTexts(input.parts)
             /\ \A i \in 1..Len(result) : Len(result[i]) = 3
    /\ (call \in Builders /\ outcome = "returned") => ThreeElements(result)

\* C24: three coordinates were extracted, one of three numbers after one of
\* two.
C24_Witness ==
    /\ call = "_extract_coordinates" /\ outcome = "returned"
    /\ Len(result) = 3
    /\ result[1][3] = 0 /\ result[2][3] # 0
    /\ result[1] # result[3]

\* The intents the classifier returns.
ClassifierIntents ==
    { "draw_line", "draw_circle", "draw_arc", "draw_rectangle", "draw_polyline",
      "draw_text", "add_dimension", "create_layer", "save", "unknown" }

\* The rules of lines 219-283 give the text t one of the intents of the
\* classifier, and the dispatch of parse_command on that intent returns.
RulesStayInside(obj, t) ==
    /\ ClassifyRules(obj, t) \in ClassifierIntents
    /\ Dispatch(ClassifyRules(obj, t), t).kind = "returned"

\* C30: the classifier returns nothing but draw_line, draw_circle, draw_arc,
\* draw_rectangle, draw_polyline, draw_text, add_dimension, create_layer,
\* save and unknown, so parse_command never takes the branch of draw_wall.
C30_ClassifierIntents ==
    /\ (Classified /\ outcome = "returned") => result \in ClassifierIntents
    /\ Classified => RulesStayInside(self, command)
    /\ Interpreted => RulesStayInside(self, Normalize(command))

\* C30: the classifier was called on a command to draw a wall.
C30_Witness ==
    /\ Classified /\ outcome # "none"
    /\ Contains(command, <<"hua">>) /\ Contains(command, <<"qiang">>)
    /\ ClassifyRules(self, command) # "draw_wall"

\* The controller is running: is_running() would return True.
Running(ctl) == is_running(ctl) = Return(TRUE)

\* The number of layers of the drawing with that name.
Copies(doc, layer_name) ==
    Cardinality({ i \in 1..Len(doc.layers) : doc.layers[i] = layer_name })

\* The step is a call of create_layer on a running controller.
CreatesLayer == Running(controller) /\ call' = "create_layer"

\* C25: while the controller is running, create_layer(name) adds no layer
\* if one of that name exists and exactly one otherwise; in both cases the
\* layer becomes the active layer and True is returned, so that exactly one
\* layer has that name afterwards.
C25_CreateLayerEnsures ==
    [][ CreatesLayer
          => /\ outcome' = "returned" /\ result' = TRUE
             /\ document'.layers =
                    IF HasLayer(document, command'.layer_name)
                    THEN document.layers
                    ELSE Append(document.layers, command'.layer_name)
             /\ document'.active = command'.layer_name
             /\ Copies(document', command'.layer_name) = 1 ]_vars

\* C25, amended: while the controller is running, create_layer(name) never
\* duplicates a layer: it adds none if one of that name exists and at most
\* one otherwise; when it returns True the layer exists exactly once and is
\* the active layer; when a call on the drawing raises it returns False and
\* the active layer stays as it was.
C25_CreateLayerNoDuplicate ==
    [][ CreatesLayer
          => /\ outcome' = "returned" /\ result' \in BOOLEAN
             /\ \A n \in LayerNames : Copies(document, n) <= 1
             /\ document'.layers \in
                    IF HasLayer(document, command'.layer_name)
                    THEN {document.layers}
                    ELSE {document.layers,
                          Append(document.layers, command'.layer_name)}
             /\ Copies(document', command'.layer_name) <= 1
             /\ IF result'
                THEN /\ Copies(document', command'.layer_name) = 1
                     /\ document'.active = command'.layer_name
                ELSE document'.active = document.active ]_vars

\* C25: create_layer returned True for a layer that was added to the
\* drawing, which has it once, as the active layer.
C25_Witness ==
    /\ call = "create_layer" /\ outcome = "returned" /\ result = TRUE
    /\ command.layer_name = <<"A">>
    /\ Copies(document, <<"A">>) = 1
    /\ document.active = <<"A">>
    /\ Running(controller)

\* The controller is not running: app or doc is None.
NotRunning(ctl) == (HasAttr(ctl, "app") /\ ctl.app = None) \/ ctl.doc = None

\* The call returned the failure value of its operation.
Failed(name, value) ==
    IF name \in DrawingOperations THEN value = None ELSE value = FALSE

\* C26: when the controller is not running, every drawing, layer, block,
\* dimension, zoom and save operation returns its failure value and leaves
\* the drawing and the controller as they were.
C26_NotRunningFrame ==
    [][ (NotRunning(controller) /\ call' \in Operations)
          => /\ outcome' = "returned"
             /\ Failed(call', result')
             /\ controller' = controller
             /\ document' = document ]_vars

\* C27: what start_cad returns is what is_running() returns afterwards,
\* on a new controller and on one that was started before.
C27_StartAgreesWithRunning ==
    call = "start_cad"
        => /\ outcome = "returned"
           /\ is_running(controller) = Return(result)

\* C28: after close(), is_running() returns False and every drawing
\* operation returns its failure value without raising.
C28_ClosedIsNotRunning ==
    call = "close"
        => /\ is_running(controller) = Return(FALSE)
           /\ \A name \in DrawingOperations :
                \A a \in Arguments(name) :
                    Operation(name, controller, document, a, {}).ret = Return(None)

\* C29: when draw_hatch returns None, the call has added no entity to the
\* drawing.
C29_HatchAllOrNothing ==
    [][ (call' = "draw_hatch" /\ outcome' = "returned" /\ result' = None)
          => document'.entities = document.entities ]_vars

=============================================================================
